---------------------------- MODULE Spec2Model ----------------------------
(***************************************************************************)
(* A model of ClaraVerse's service orchestration core:                     *)
(*   - ClaraCoreRemoteService (electron/claraCoreRemoteService.cjs):       *)
(*     testSetup, detectHardware, deploy, monitorRemoteServices and the    *)
(*     execCommand helpers, checked under Spec;                            *)
(*   - ClaraCoreDockerService (the local container lifecycle manager),     *)
(*     checked under SpecDocker;                                           *)
(*   - the service registry's validateServiceConfiguration, checked under  *)
(*     SpecRegistry.                                                       *)
(***************************************************************************)
EXTENDS Integers, Sequences, FiniteSets, TLC

\* this.sudoPassword = null; config.password is never the empty string here
NULL == << >>

(***************************************************************************)
(* Strings.  A command line is a sequence of atoms (words and single       *)
(* characters); a password is a sequence of atoms too, so that escaping    *)
(* and "the command contains the password" are computed, not assumed.      *)
(***************************************************************************)
Passwords == { <<"s3cret">>, <<"pa", "'", "ss">> }

\* the values config.hardwareType takes; "undefined" is the omitted field as
\* the template literals of deploy() print it
HardwareTypes == {"cpu", "cuda", "rocm", "strix", "undefined"}

\* the tags the clara17verse/claracore image is published with
ImageTags == {"cpu", "cuda", "rocm", "strix"}

Includes(s, atom) == \E i \in DOMAIN s : s[i] = atom

\* String.prototype.includes on atom sequences: sub occurs in s
Contains(s, sub) ==
    \E i \in 0..(Len(s) - Len(sub)) :
        \A j \in 1..Len(sub) : s[i + j] = sub[j]

RECURSIVE ReplaceAtom(_, _, _)
\* s.replace(/from/g, to), to being a sequence of atoms
ReplaceAtom(s, from, to) ==
    IF s = <<>> THEN <<>>
    ELSE (IF Head(s) = from THEN to ELSE <<Head(s)>>)
             \o ReplaceAtom(Tail(s), from, to)

\* password.replace(/'/g, "'\\''")
EscapePassword(pw) == ReplaceAtom(pw, "'", <<"'", "\\", "'", "'">>)

\* the command string execCommand / execCommandWithOutput hand to conn.exec
WrapSudo(command, pw) ==
    IF pw # NULL /\ Includes(command, "sudo")
    THEN IF Includes(command, "|")
         THEN <<"bash", "-c", "\"", "echo", "'">> \o EscapePassword(pw)
                  \o <<"'", "|">> \o ReplaceAtom(command, "sudo", <<"sudo", "-S">>)
                  \o <<"\"">>
         ELSE IF Head(command) = "sudo"
              THEN <<"echo", "'">> \o EscapePassword(pw)
                       \o <<"'", "|", "sudo", "-S">> \o Tail(command)
              ELSE command
    ELSE command

(***************************************************************************)
(* The remote commands, as atom sequences.                                 *)
(***************************************************************************)
\* 'docker --version', asked by checkDocker and by detectHardware
CmdDockerVersion == <<"docker", "--version">>

\* the probes of detectHardware
DetectCmd ==
    [uname |-> <<"uname", "-m">>,
     dockerVersion |-> CmdDockerVersion,
     nvidiaQuery |-> <<"nvidia-smi", "--query-gpu=name">>,
     nvcc |-> <<"nvcc", "--version", "|", "grep", "release">>,
     rocmSmi |-> <<"rocm-smi", "--showproductname">>,
     rocmVersion |-> <<"cat", "/opt/rocm/.info/version">>,
     lscpu |-> <<"lscpu", "|", "grep", "Model name">>]

\* the commands of installDocker (with detectDistro's)
InstallCmd ==
    [catOsRelease |-> <<"cat", "/etc/os-release">>,
     curlGetDocker |-> <<"curl", "-fsSL", "https://get.docker.com", "-o", "/tmp/get-docker.sh">>,
     runGetDocker |-> <<"sudo", "sh", "/tmp/get-docker.sh">>,
     rmGetDocker |-> <<"rm", "/tmp/get-docker.sh">>,
     whoami |-> <<"whoami">>,
     usermodDocker |-> <<"sudo", "usermod", "-aG", "docker", "user">>,
     systemctlStart |-> <<"sudo", "systemctl", "start", "docker">>,
     systemctlEnable |-> <<"sudo", "systemctl", "enable", "docker">>]

\* step 1.5 of deploy
NetworkCmd ==
    [ls |-> <<"docker", "network", "ls", "--filter", "name=clara_network">>,
     create |-> <<"docker", "network", "create", "clara_network">>]

\* the commands of setupCuda
CudaCmd ==
    [nvidiaSmi |-> <<"nvidia-smi">>,
     whichCtk |-> <<"which", "nvidia-ctk">>,
     whichApt |-> <<"which", "apt-get">>,
     whichYum |-> <<"which", "yum">>,
     ctkConfigure |-> <<"sudo", "nvidia-ctk", "runtime", "configure", "--runtime=docker">>,
     daemonReload |-> <<"sudo", "systemctl", "daemon-reload">>,
     restartDocker |-> <<"sudo", "systemctl", "restart", "docker">>,
     contextShow |-> <<"docker", "context", "show">>,
     contextUse |-> <<"docker", "context", "use", "default">>,
     whoami |-> <<"whoami">>,
     usermodDocker |-> <<"sudo", "usermod", "-aG", "docker", "user">>,
     dockerInfo |-> <<"docker", "info", "|", "grep", "-i", "runtime">>,
     aptUpdate |-> <<"sudo", "apt-get", "update">>]

\* the commands of setupRocm
RocmCmd ==
    [testKfd |-> <<"test", "-e", "/dev/kfd">>,
     testDri |-> <<"test", "-e", "/dev/dri">>,
     whoami |-> <<"whoami">>,
     usermodVideo |-> <<"sudo", "usermod", "-a", "-G", "video,render", "user">>]

\* the commands of setupStrix
StrixCmd ==
    [testDri |-> <<"test", "-e", "/dev/dri">>,
     whichVulkan |-> <<"which", "vulkaninfo">>,
     catOsRelease |-> <<"cat", "/etc/os-release">>,
     vulkanVerify |-> <<"vulkaninfo", "--summary", "|", "grep", "-i", "Vulkan Instance Version">>,
     vulkanDevices |-> <<"vulkaninfo", "--summary", "|", "grep", "-i", "deviceName">>,
     whoami |-> <<"whoami">>,
     usermodVideo |-> <<"sudo", "usermod", "-a", "-G", "video,render", "user">>,
     aptUpdate |-> <<"sudo", "apt-get", "update">>,
     aptVulkan |-> <<"sudo", "apt-get", "install", "-y", "mesa-vulkan-drivers">>,
     dnfVulkan |-> <<"sudo", "dnf", "install", "-y", "mesa-vulkan-drivers">>,
     pacmanVulkan |-> <<"sudo", "pacman", "-S", "--noconfirm", "vulkan-radeon">>]

\* installNvidiaToolkitApt's command list
NvidiaToolkitAptCommands ==
    << <<"curl", "-fsSL", "gpgkey", "|", "sudo", "gpg", "--dearmor">>,
       <<"curl", "-s", "-L", "nvidia-container-toolkit.list", "|", "sed", "|", "sudo", "tee", "/etc/apt/sources.list.d/nvidia-container-toolkit.list">>,
       CudaCmd.aptUpdate,
       <<"sudo", "apt-get", "install", "-y", "nvidia-container-toolkit">> >>

\* installNvidiaToolkitYum's command list
NvidiaToolkitYumCommands ==
    << <<"curl", "-s", "-L", "nvidia-container-toolkit.repo", "|", "sudo", "tee", "/etc/yum.repos.d/nvidia-container-toolkit.repo">>,
       <<"sudo", "yum", "install", "-y", "nvidia-container-toolkit">> >>

ImageName(hw) == "clara17verse/claracore:" \o hw
ContainerName(hw) == "claracore-" \o hw

CmdDockerStop(name) == <<"docker", "stop", name, "||", "true">>
CmdDockerRm(name) == <<"docker", "rm", name, "||", "true">>
CmdDockerPull(image) == <<"docker", "pull", image>>
CmdDockerPs(name) == <<"docker", "ps", "-q", "-f", "name=", name>>
CmdDockerLogs(name) == <<"docker", "logs", name>>
CmdDockerInspect(name) == <<"docker", "inspect", name>>
CmdCurlHealth == <<"curl", "-sf", "http://localhost:5890/health">>
CmdDockerPsAll == <<"docker", "ps", "-a", "--filter", "name=claracore-">>

\* buildDockerRunCommand without the hardware-specific flags
buildDockerRunCommand_NoFlags(hardwareType, containerName, imageName) ==
    <<"docker", "run", "-d", "--name", containerName,
      "--network", "clara_network", "-p", "8091:5890", "-p", "5890:5890",
      "-v", "claracore-" \o hardwareType \o "-downloads:/app/downloads", imageName>>

buildDockerRunCommand(hardwareType, containerName, imageName) ==
    LET baseCmd == <<"docker", "run", "-d", "--name", containerName,
                     "--network", "clara_network", "-p", "8091:5890", "-p", "5890:5890">>
        volume == <<"-v", "claracore-" \o hardwareType \o "-downloads:/app/downloads">>
    IN  CASE hardwareType = "cuda" ->
                 baseCmd \o <<"--gpus", "all">> \o volume \o <<imageName>>
          [] hardwareType = "rocm" ->
                 baseCmd \o <<"--device=/dev/kfd", "--device=/dev/dri", "--group-add", "video",
                              "--ipc=host", "--cap-add=SYS_PTRACE",
                              "--security-opt", "seccomp=unconfined">>
                         \o volume \o <<imageName>>
          [] hardwareType = "strix" ->
                 baseCmd \o <<"--device=/dev/dri", "--group-add", "video",
                              "--security-opt", "seccomp=unconfined">>
                         \o volume \o <<imageName>>
          [] OTHER -> baseCmd \o volume \o <<imageName>>


(***************************************************************************)
(* State of one ClaraCoreRemoteService instance, of the promise its        *)
(* current public call returned, and of the remote host it talks to.       *)
(***************************************************************************)
VARIABLES
    op,                 \* the public operation in flight: deploy, testSetup, monitor
    pc,                 \* where the 'ready' handler of that operation stands
    config,             \* the config argument: hardwareType, password
    sudoPassword,       \* this.sudoPassword
    isResolved,         \* the call's isResolved flag
    promise,            \* pending, resolved or rejected
    result,             \* the value the promise settled with
    settledBy,          \* the handler that settled it: ready, error, timeout
    timerArmed,         \* the call's setTimeout is pending
    conn,               \* the ssh2 client: none, connecting, open, ended, broken
    actualHardwareType, \* deploy's actualHardwareType
    gpuAvailable,       \* deploy's gpuAvailable
    hostDocker,         \* remote host: docker is installed
    hostDriver,         \* remote host: the GPU driver or device, as this call's GPU step met it
    hostNetwork,        \* remote host: clara_network exists
    containers,         \* remote host: state of claracore-<type>, per type
    sent,               \* the command strings handed to conn.exec in this call
    logged,             \* the command strings written to the log in this call
    details,            \* detectHardware's details
    services            \* monitorRemoteServices' services

(***************************************************************************)
(* State of one ClaraCoreDockerService instance and of the local machine.  *)
(***************************************************************************)
VARIABLES
    lop,                \* the lifecycle operation in flight: start, stop, restart, remove
    lpc,                \* where that operation stands
    options,            \* start's options.gpuType ("none" when omitted)
    platform,           \* os.platform()
    gpuType,            \* this.gpuType
    detectedImage,      \* this.detectedImage
    isRunning,          \* this.isRunning
    engineUp,           \* the local container engine answers
    container,          \* the engine's container named clara_core: state and image
    images,             \* the tags of clara17verse/claracore present locally
    port8091,           \* the process listening on host port 8091
    attempt,            \* waitForHealthy's loop counter i (0 outside the loop)
    becameHealthy,      \* waitForHealthy's return value
    lresult,            \* what the operation returned or threw
    trace,              \* the engine calls and process kills issued by the operation
    entry,              \* the container's state when the operation was invoked (engine reachable)
    disturbed,          \* the machine, not the operation, took the engine or the container away meanwhile
    stopGrace,          \* the t option of the operation's last container.stop call (0: no call)
    status              \* one getStatus() call: where it stands and what it returned

dockerVars == <<lop, lpc, options, platform, gpuType, detectedImage, isRunning,
                engineUp, container, images, port8091, attempt, becameHealthy, lresult, trace,
                entry, disturbed, stopGrace, status>>

(***************************************************************************)
(* State of one validateServiceConfiguration(services) evaluation.         *)
(***************************************************************************)
VARIABLES
    svcNames,           \* Object.keys(services), in insertion order
    svcDeps,            \* services[name].dependencies, per name
    errors,             \* the returned list
    validated,          \* the function has returned
    reg                 \* the last call of a registry query and what it returned

registryVars == <<svcNames, svcDeps, errors, validated, reg>>

(***************************************************************************)
(* State of the ArtifactPaneProvider component.                            *)
(***************************************************************************)
VARIABLES
    isOpen,             \* useState(false)
    artifacts,          \* useState([]): the list of artifacts, newest first
    currentMessageId    \* useState(null)

paneVars == <<isOpen, artifacts, currentMessageId>>

(***************************************************************************)
(* Two deploy() calls in flight on one ClaraCoreRemoteService instance.    *)
(***************************************************************************)
VARIABLES
    sessions            \* per call: where it stands, its config.password, the commands sent for it

\* what the remote service's actions leave alone
localVars == <<dockerVars, registryVars, paneVars, sessions>>

\* what the steps of the remote operations leave alone; hostDriver is written
\* by a new call and by gpuSetup only
nonRemoteVars == <<localVars, hostDriver>>

remoteVars == <<op, pc, config, sudoPassword, isResolved, promise, result,
                settledBy, timerArmed, conn, actualHardwareType, gpuAvailable,
                hostDocker, hostDriver, hostNetwork, containers, sent, logged, details,
                services>>

NoResult ==
    [success |-> FALSE, error |-> "none", containerName |-> "none",
     hardwareType |-> "none", gpuAvailable |-> FALSE, fallbackToCpu |-> FALSE,
     detected |-> "none", confidence |-> "none"]

Failure(err) == [NoResult EXCEPT !.error = err]

\* failedProbes is not a field of the code's object: it keeps the features
\* whose probe command exited with a non-zero code
NoDetails ==
    [architecture |-> <<"unknown">>, docker |-> FALSE, nvidia |-> FALSE,
     cudaVersion |-> FALSE, rocm |-> FALSE, rocmVersion |-> FALSE, strix |-> FALSE,
     failedProbes |-> {}]

RemoteInit ==
    /\ op = "none"
    /\ pc = "idle"
    /\ config = [hardwareType |-> "none", password |-> NULL]
    /\ sudoPassword = NULL
    /\ isResolved = FALSE
    /\ promise = "none"
    /\ result = NoResult
    /\ settledBy = "none"
    /\ timerArmed = FALSE
    /\ conn = "none"
    /\ actualHardwareType = "none"
    /\ gpuAvailable = FALSE
    /\ hostDocker \in BOOLEAN
    /\ hostDriver = "unknown"
    /\ hostNetwork = FALSE
    /\ containers = [t \in HardwareTypes |-> "absent"]
    /\ sent = <<>>
    /\ logged = <<>>
    /\ details = NoDetails
    /\ services = {}

\* conn.exec still working on a connection the client has ended itself
ExecFails_OnlyWhenBroken == conn = "broken"

\* conn.exec calls back with an error (or throws) once the connection is gone
ExecFails == conn \in {"ended", "broken"}

\* conn.end(): closes a live connection
ConnEnd == IF conn = "broken" THEN "broken" ELSE "ended"

\* the strings conn.exec receives for these commands
Wire(cmds) == [i \in DOMAIN cmds |-> WrapSudo(cmds[i], sudoPassword)]

\* new Promise(...): the state every public call starts from
CallStart(name, cfg) ==
    /\ pc \in {"idle", "ended"}
    /\ op' = name
    /\ config' = cfg
    /\ isResolved' = FALSE
    /\ promise' = "pending"
    /\ result' = NoResult
    /\ settledBy' = "none"
    /\ timerArmed' = TRUE
    /\ conn' = "connecting"
    /\ pc' = "connecting"
    /\ sent' = <<>>
    /\ logged' = <<>>
    /\ actualHardwareType' = "none"
    /\ gpuAvailable' = FALSE
    /\ details' = NoDetails
    /\ services' = {}
    /\ hostDriver' = "unknown"
    /\ UNCHANGED <<hostDocker, hostNetwork, containers>>
    /\ UNCHANGED localVars

\* if (!isResolved) { isResolved = true; resolve(value) }
ResolveOnce(value, by) ==
    IF ~isResolved
    THEN /\ isResolved' = TRUE
         /\ promise' = "resolved"
         /\ result' = value
         /\ settledBy' = by
    ELSE UNCHANGED <<isResolved, promise, result, settledBy>>

\* reject(error) without the isResolved guard
RejectOnce_Unguarded(err, by) ==
    /\ isResolved' = TRUE
    /\ promise' = "rejected"
    /\ result' = Failure(err)
    /\ settledBy' = by

\* if (!isResolved) { isResolved = true; reject(error) }
RejectOnce(err, by) ==
    IF ~isResolved
    THEN /\ isResolved' = TRUE
         /\ promise' = "rejected"
         /\ result' = Failure(err)
         /\ settledBy' = by
    ELSE UNCHANGED <<isResolved, promise, result, settledBy>>

(***************************************************************************)
(* deploy(config)                                                          *)
(***************************************************************************)
\* deploy(): the promise executor up to conn.connect
DeployCall ==
    \E hw \in HardwareTypes, pw \in Passwords :
        /\ CallStart("deploy", [hardwareType |-> hw, password |-> pw])
        /\ sudoPassword' = pw

\* deploy's catch (error) block
DeployCatch(err) ==
    /\ timerArmed' = FALSE
    /\ conn' = ConnEnd
    /\ sudoPassword' = NULL
    /\ ResolveOnce(Failure(err), "ready")
    /\ pc' = "ended"

\* deploy's setTimeout callback (5 minutes).  ssh2's readyTimeout of 30 s ends
\* the connecting phase with an 'error' event long before this timer fires.
DeployTimeout ==
    /\ op = "deploy"
    /\ timerArmed
    /\ pc # "connecting"
    /\ timerArmed' = FALSE
    /\ IF ~isResolved
       THEN /\ conn' = ConnEnd
            /\ RejectOnce("timeout", "timeout")
       ELSE UNCHANGED <<conn, isResolved, promise, result, settledBy>>
    /\ UNCHANGED <<op, pc, config, sudoPassword, actualHardwareType, gpuAvailable,
                   hostDocker, hostNetwork, containers, sent, logged, details, services>>
    /\ UNCHANGED nonRemoteVars

\* deploy's conn.on('error') handler
DeployError ==
    /\ op = "deploy"
    /\ conn \in {"connecting", "open"}
    /\ conn' = "broken"
    /\ timerArmed' = FALSE
    /\ sudoPassword' = NULL
    /\ ResolveOnce(Failure("connection"), "error")
    /\ pc' = IF pc = "connecting" THEN "ended" ELSE pc
    /\ UNCHANGED <<op, config, actualHardwareType, gpuAvailable,
                   hostDocker, hostNetwork, containers, sent, logged, details, services>>
    /\ UNCHANGED nonRemoteVars

\* conn.on('ready') of deploy: up to the first await
DeployReady ==
    /\ op = "deploy"
    /\ pc = "connecting"
    /\ conn = "connecting"
    /\ conn' = "open"
    /\ pc' = "checkDocker"
    /\ UNCHANGED <<op, config, sudoPassword, isResolved, promise, result, settledBy,
                   timerArmed, actualHardwareType, gpuAvailable, hostDocker, hostNetwork,
                   containers, sent, logged, details, services>>
    /\ UNCHANGED nonRemoteVars

\* checkDocker: a failing exec is caught and read as "docker is missing"
checkDocker ==
    /\ op = "deploy"
    /\ pc = "checkDocker"
    /\ IF ExecFails
       THEN /\ pc' = "installDocker"
            /\ sent' = sent
       ELSE /\ sent' = sent \o Wire(<<CmdDockerVersion>>)
            /\ pc' = IF hostDocker THEN "network" ELSE "installDocker"
    /\ UNCHANGED <<op, config, sudoPassword, isResolved, promise, result, settledBy,
                   timerArmed, conn, actualHardwareType, gpuAvailable, hostDocker,
                   hostNetwork, containers, logged, details, services>>
    /\ UNCHANGED nonRemoteVars

\* installDocker: only the installer script, run by execCommandWithOutput, can
\* fail on a non-zero exit
installDocker ==
    /\ op = "deploy"
    /\ pc = "installDocker"
    /\ IF ExecFails
       THEN /\ DeployCatch("docker_install")
            /\ UNCHANGED <<sent, hostDocker>>
       ELSE \E scriptOk \in BOOLEAN :
              IF scriptOk
              THEN /\ sent' = sent \o Wire(<<InstallCmd.catOsRelease, InstallCmd.curlGetDocker, InstallCmd.runGetDocker,
                                             InstallCmd.rmGetDocker, InstallCmd.whoami, InstallCmd.usermodDocker,
                                             InstallCmd.systemctlStart, InstallCmd.systemctlEnable>>)
                   /\ hostDocker' = TRUE
                   /\ pc' = "network"
                   /\ UNCHANGED <<timerArmed, conn, sudoPassword, isResolved, promise,
                                  result, settledBy>>
              ELSE /\ sent' = sent \o Wire(<<InstallCmd.catOsRelease, InstallCmd.curlGetDocker, InstallCmd.runGetDocker>>)
                   /\ DeployCatch("docker_install")
                   /\ UNCHANGED hostDocker
    /\ UNCHANGED <<op, config, actualHardwareType, gpuAvailable,
                   hostNetwork, containers, logged, details, services>>
    /\ UNCHANGED nonRemoteVars

\* step 1.5: ensure clara_network exists, then the start of step 2
setupNetwork ==
    /\ op = "deploy"
    /\ pc = "network"
    /\ IF ExecFails
       THEN /\ DeployCatch("channel")
            /\ UNCHANGED <<sent, hostNetwork, actualHardwareType, gpuAvailable>>
       ELSE /\ sent' = sent \o Wire(IF hostNetwork THEN <<NetworkCmd.ls>>
                                    ELSE <<NetworkCmd.ls, NetworkCmd.create>>)
            /\ hostNetwork' = TRUE
            /\ actualHardwareType' = config.hardwareType
            /\ gpuAvailable' = FALSE
            /\ pc' = IF config.hardwareType # "cpu" THEN "gpuSetup" ELSE "cleanup"
            /\ UNCHANGED <<timerArmed, conn, sudoPassword, isResolved, promise, result,
                           settledBy>>
    /\ UNCHANGED <<op, config, hostDocker, containers, logged, details, services>>
    /\ UNCHANGED nonRemoteVars


(***************************************************************************)
(* Step 2 of deploy: the hardware-specific prerequisites.  Each run of a   *)
(* setup function is the list of commands it issued and how it ended; the  *)
(* remote host chooses among the runs.  execCommand resolves whatever the  *)
(* exit code, so only the missing-driver checks, the unsupported package   *)
(* manager / distribution and the execCommandWithOutput installs throw.    *)
(***************************************************************************)
\* how a probe command ends on the host: its exit code, and what it wrote to
\* stdout (stderr goes to /dev/null).  A tool that is not installed ends with
\* code 127 and no output; an installed one answers, or fails with or without
\* a message on stdout
ProbeRuns ==
    { [code |-> 0, output |-> "text"],
      [code |-> 1, output |-> "text"], [code |-> 1, output |-> ""],
      [code |-> 127, output |-> ""] }

\* stream.on('close', (code) => ... resolve(output || errorOutput)): the
\* exit code is logged at most
execCommand(run) == run.output

\* info && !info.includes('command not found') && info.trim()
Found(info) == info # "" /\ info # "command not found"

Prefix(seq, k) == SubSeq(seq, 1, k)

SetupRun(cmds, outcome) == [cmds |-> cmds, outcome |-> outcome]

setupCuda ==
    LET configure(desktop) ==
            <<CudaCmd.ctkConfigure, CudaCmd.daemonReload, CudaCmd.restartDocker, CudaCmd.contextShow>>
                \o (IF desktop THEN <<CudaCmd.contextUse, CudaCmd.whoami, CudaCmd.usermodDocker>> ELSE <<>>)
                \o <<CudaCmd.dockerInfo>>
        probe == <<CudaCmd.nvidiaSmi, CudaCmd.whichCtk, CudaCmd.whichApt, CudaCmd.whichYum>>
    IN  { SetupRun(<<CudaCmd.nvidiaSmi>>, "threw") }
        \cup { SetupRun(<<CudaCmd.nvidiaSmi, CudaCmd.whichCtk>> \o configure(d), "ok") : d \in BOOLEAN }
        \cup { SetupRun(probe \o NvidiaToolkitAptCommands \o configure(d), "ok") : d \in BOOLEAN }
        \cup { SetupRun(probe \o Prefix(NvidiaToolkitAptCommands, k), "threw") :
                   k \in 1..Len(NvidiaToolkitAptCommands) }
        \cup { SetupRun(probe \o NvidiaToolkitYumCommands \o configure(FALSE), "ok") }
        \cup { SetupRun(probe \o Prefix(NvidiaToolkitYumCommands, k), "threw") :
                   k \in 1..Len(NvidiaToolkitYumCommands) }
        \cup { SetupRun(probe, "threw") }

setupRocm ==
    { SetupRun(<<RocmCmd.testKfd>>, "threw"),
      SetupRun(<<RocmCmd.testKfd, RocmCmd.testDri>>, "threw"),
      SetupRun(<<RocmCmd.testKfd, RocmCmd.testDri, RocmCmd.whoami, RocmCmd.usermodVideo>>, "ok") }

setupStrix ==
    LET probe == <<StrixCmd.testDri, StrixCmd.whichVulkan, StrixCmd.catOsRelease>>
        finish == <<StrixCmd.vulkanVerify, StrixCmd.whoami, StrixCmd.usermodVideo>>
    IN  { SetupRun(<<StrixCmd.testDri>>, "threw"),
          SetupRun(<<StrixCmd.testDri, StrixCmd.whichVulkan, StrixCmd.vulkanDevices, StrixCmd.whoami, StrixCmd.usermodVideo>>, "ok"),
          SetupRun(probe \o <<StrixCmd.aptUpdate>>, "threw"),
          SetupRun(probe \o <<StrixCmd.aptUpdate, StrixCmd.aptVulkan>>, "threw"),
          SetupRun(probe \o <<StrixCmd.aptUpdate, StrixCmd.aptVulkan>> \o finish, "ok"),
          SetupRun(probe \o <<StrixCmd.dnfVulkan>>, "threw"),
          SetupRun(probe \o <<StrixCmd.dnfVulkan>> \o finish, "ok"),
          SetupRun(probe \o <<StrixCmd.pacmanVulkan>>, "threw"),
          SetupRun(probe \o <<StrixCmd.pacmanVulkan>> \o finish, "ok"),
          SetupRun(probe, "threw") }

\* the if / else-if chain of step 2: no branch is taken for any other value
SetupRuns(hardwareType) ==
    CASE hardwareType = "cuda" -> setupCuda
      [] hardwareType = "rocm" -> setupRocm
      [] hardwareType = "strix" -> setupStrix
      [] OTHER -> { SetupRun(<<>>, "none") }

\* how the first command of a setup function, the driver or device check,
\* ends on the host.  'nvidia-smi 2>/dev/null' ends like any probe; the
\* 'test -e ... && echo "exists" || echo "missing"' of setupRocm and
\* setupStrix always exits with 0 and prints one of the two words
DriverChecks(hardwareType) ==
    CASE hardwareType = "cuda" -> ProbeRuns
      [] hardwareType \in {"rocm", "strix"} ->
             { [code |-> 0, output |-> "exists"], [code |-> 0, output |-> "missing"] }
      [] OTHER -> { [code |-> 0, output |-> ""] }

\* the remote host's driver or device, given how its check ended: nvidia-smi
\* exits with 0 only when it reaches the driver
HostDriverAt(hardwareType, check) ==
    CASE hardwareType = "cuda" -> IF check.code = 0 THEN "present" ELSE "absent"
      [] hardwareType \in {"rocm", "strix"} ->
             IF check.output = "missing" THEN "absent" ELSE "present"
      [] OTHER -> "unknown"

\* the conditions under which the setup functions go past their check:
\* !(!nvidiaCheck || nvidiaCheck.includes('command not found')) for setupCuda,
\* kfdCheck.trim() !== 'missing' (and the same for /dev/dri) for the two others
CheckPasses(hardwareType, check) ==
    CASE hardwareType = "cuda" -> Found(execCommand(check))
      [] hardwareType \in {"rocm", "strix"} -> check.output # "missing"
      [] OTHER -> TRUE

\* the runs that end with the 'install drivers first' error of the check
StopsAtCheck(hardwareType, run) ==
    /\ run.outcome = "threw"
    /\ run.cmds \in CASE hardwareType = "cuda" -> { <<CudaCmd.nvidiaSmi>> }
                    [] hardwareType = "rocm" -> { <<RocmCmd.testKfd>>,
                                                  <<RocmCmd.testKfd, RocmCmd.testDri>> }
                    [] hardwareType = "strix" -> { <<StrixCmd.testDri>> }
                    [] OTHER -> {}

\* the hardware type deploy goes on with after step 2
ActualAfterSetup(hardwareType, outcome) ==
    IF outcome = "threw" THEN "cpu" ELSE hardwareType

\* step 2: hardware-specific prerequisites with the CPU fallback; a failing
\* exec inside a setup function is caught like any other GPU setup error
gpuSetup ==
    /\ op = "deploy"
    /\ pc = "gpuSetup"
    /\ IF ExecFails
       THEN /\ actualHardwareType' = ActualAfterSetup(config.hardwareType, "threw")
            /\ gpuAvailable' = FALSE
            /\ sent' = sent
            /\ UNCHANGED hostDriver
       ELSE \E run \in SetupRuns(config.hardwareType), check \in DriverChecks(config.hardwareType) :
                /\ StopsAtCheck(config.hardwareType, run) <=> ~CheckPasses(config.hardwareType, check)
                /\ hostDriver' = HostDriverAt(config.hardwareType, check)
                /\ sent' = sent \o Wire(run.cmds)
                /\ actualHardwareType' = ActualAfterSetup(config.hardwareType, run.outcome)
                /\ gpuAvailable' = (run.outcome = "ok")
    /\ pc' = "cleanup"
    /\ UNCHANGED <<op, config, sudoPassword, isResolved, promise, result, settledBy,
                   timerArmed, conn, hostDocker, hostNetwork, containers, logged, details,
                   services>>
    /\ UNCHANGED localVars

\* step 3: stop and remove the existing container of the final name
cleanup ==
    /\ op = "deploy"
    /\ pc = "cleanup"
    /\ IF ExecFails
       THEN /\ DeployCatch("channel")
            /\ UNCHANGED <<sent, containers>>
       ELSE /\ sent' = sent \o Wire(<<CmdDockerStop(ContainerName(actualHardwareType)),
                                      CmdDockerRm(ContainerName(actualHardwareType))>>)
            /\ containers' = [containers EXCEPT ![actualHardwareType] = "absent"]
            /\ pc' = "pull"
            /\ UNCHANGED <<timerArmed, conn, sudoPassword, isResolved, promise, result,
                           settledBy>>
    /\ UNCHANGED <<op, config, actualHardwareType, gpuAvailable, hostDocker,
                   hostNetwork, logged, details, services>>
    /\ UNCHANGED nonRemoteVars

\* step 4: docker pull through execCommandWithOutput, which rejects on a
\* non-zero exit; a tag that was never published cannot be pulled
pullImage ==
    /\ op = "deploy"
    /\ pc = "pull"
    /\ IF ExecFails
       THEN /\ DeployCatch("channel")
            /\ sent' = sent
       ELSE /\ sent' = sent \o Wire(<<CmdDockerPull(ImageName(actualHardwareType))>>)
            /\ \E pulled \in BOOLEAN :
                 IF pulled /\ actualHardwareType \in ImageTags
                 THEN /\ pc' = "run"
                      /\ UNCHANGED <<timerArmed, conn, sudoPassword, isResolved, promise,
                                     result, settledBy>>
                 ELSE DeployCatch("pull")
    /\ UNCHANGED <<op, config, actualHardwareType, gpuAvailable, hostDocker,
                   hostNetwork, containers, logged, details, services>>
    /\ UNCHANGED nonRemoteVars

\* the host ports 8091 and 5890 are published by a running claracore container
PortsTaken(cs) == \E t \in DOMAIN cs : cs[t] = "running"

\* what 'docker run -d' leaves behind: a running container, or a container
\* that was created but is not running (its ports are taken, or it exited)
RunOutcomes(cs) == IF PortsTaken(cs) THEN {"exited"} ELSE {"running", "exited"}

\* step 5: docker run through execCommand, which resolves whatever the exit
\* code; a failed command is logged with its original text
runContainer ==
    /\ op = "deploy"
    /\ pc = "run"
    /\ IF ExecFails
       THEN /\ DeployCatch("run")
            /\ UNCHANGED <<sent, containers, logged>>
       ELSE LET runCommand == buildDockerRunCommand(actualHardwareType,
                                  ContainerName(actualHardwareType),
                                  ImageName(actualHardwareType))
            IN  /\ sent' = sent \o Wire(<<runCommand>>)
                /\ \E st \in RunOutcomes(containers) :
                     /\ containers' = [containers EXCEPT ![actualHardwareType] = st]
                     /\ logged' = IF st = "exited" /\ PortsTaken(containers)
                                  THEN Append(logged, runCommand) ELSE logged
                /\ pc' = "sleep"
                /\ UNCHANGED <<timerArmed, conn, sudoPassword, isResolved, promise, result,
                               settledBy>>
    /\ UNCHANGED <<op, config, actualHardwareType, gpuAvailable, hostDocker,
                   hostNetwork, details, services>>
    /\ UNCHANGED nonRemoteVars

\* step 6: await this.sleep(5000)
sleep ==
    /\ op = "deploy"
    /\ pc = "sleep"
    /\ pc' = "verify"
    /\ UNCHANGED <<op, config, sudoPassword, isResolved, promise, result, settledBy,
                   timerArmed, conn, actualHardwareType, gpuAvailable, hostDocker,
                   hostNetwork, containers, sent, logged, details, services>>
    /\ UNCHANGED nonRemoteVars

\* the name step 7 filters, inspects and reads the logs of: containerName,
\* built from config.hardwareType before step 2
VerifiedType == config.hardwareType

\* step 7: verify that the container is running
verifyRunning ==
    /\ op = "deploy"
    /\ pc = "verify"
    /\ IF ExecFails
       THEN /\ DeployCatch("channel")
            /\ sent' = sent
       ELSE IF containers[VerifiedType] = "running"
            THEN /\ sent' = sent \o Wire(<<CmdDockerPs(ContainerName(VerifiedType))>>)
                 /\ pc' = "health"
                 /\ UNCHANGED <<timerArmed, conn, sudoPassword, isResolved, promise,
                                result, settledBy>>
            ELSE /\ sent' = sent \o Wire(<<CmdDockerPs(ContainerName(VerifiedType)),
                                           CmdDockerLogs(ContainerName(VerifiedType)),
                                           CmdDockerInspect(ContainerName(VerifiedType))>>)
                 /\ DeployCatch("container_failed_to_start")
    /\ UNCHANGED <<op, config, actualHardwareType, gpuAvailable, hostDocker,
                   hostNetwork, containers, logged, details, services>>
    /\ UNCHANGED nonRemoteVars

\* the value deploy resolves with on success
DeploySuccess ==
    [NoResult EXCEPT !.success = TRUE,
                     !.containerName = ContainerName(actualHardwareType),
                     !.hardwareType = actualHardwareType,
                     !.gpuAvailable = gpuAvailable,
                     !.fallbackToCpu = (config.hardwareType # "cpu"
                                        /\ actualHardwareType = "cpu")]

\* step 8 and the end of the try block: health probe, clearTimeout, conn.end,
\* clear the password, resolve
healthAndResolve ==
    /\ op = "deploy"
    /\ pc = "health"
    /\ IF ExecFails
       THEN /\ DeployCatch("channel")
            /\ sent' = sent
       ELSE /\ sent' = sent \o Wire(<<CmdCurlHealth>>)
            /\ timerArmed' = FALSE
            /\ conn' = ConnEnd
            /\ sudoPassword' = NULL
            /\ ResolveOnce(DeploySuccess, "ready")
            /\ pc' = "ended"
    /\ UNCHANGED <<op, config, actualHardwareType, gpuAvailable, hostDocker,
                   hostNetwork, containers, logged, details, services>>
    /\ UNCHANGED nonRemoteVars

Deploy ==
    \/ DeployCall
    \/ DeployReady
    \/ DeployError
    \/ DeployTimeout
    \/ checkDocker
    \/ installDocker
    \/ setupNetwork
    \/ gpuSetup
    \/ cleanup
    \/ pullImage
    \/ runContainer
    \/ sleep
    \/ verifyRunning
    \/ healthAndResolve


(***************************************************************************)
(* testSetup(config) and detectHardware(conn)                              *)
(***************************************************************************)
\* what 'uname -m' prints; the empty output leaves architecture 'unknown'
ArchOutputs == { <<>>, <<"x86_64">>, <<"aarch", "64">>, <<"arm", "v7l">> }

\* details.architecture.includes('arm') || details.architecture.includes('aarch')
isARM(architecture) == Includes(architecture, "arm") \/ Includes(architecture, "aarch")

\* the recommendation with ROCm taking precedence over the Strix signature
Recommendation_RocmFirst(d) ==
    IF isARM(d.architecture)
    THEN [detected |-> "unsupported", confidence |-> "high", reason |-> "arm"]
    ELSE IF d.nvidia
         THEN [detected |-> "cuda",
               confidence |-> IF d.cudaVersion THEN "high" ELSE "medium",
               reason |-> "none"]
         ELSE IF d.rocm
              THEN [detected |-> "rocm", confidence |-> "high", reason |-> "none"]
              ELSE IF d.strix
                   THEN [detected |-> "strix", confidence |-> "high", reason |-> "none"]
                   ELSE [detected |-> "cpu", confidence |-> "high", reason |-> "none"]

\* the recommendation detectHardware returns for the collected details
Recommendation(d) ==
    IF isARM(d.architecture)
    THEN [detected |-> "unsupported", confidence |-> "high", reason |-> "arm"]
    ELSE IF d.nvidia
         THEN [detected |-> "cuda",
               confidence |-> IF d.cudaVersion THEN "high" ELSE "medium",
               reason |-> "none"]
         ELSE IF d.strix
              THEN [detected |-> "strix", confidence |-> "high", reason |-> "none"]
              ELSE IF d.rocm
                   THEN [detected |-> "rocm", confidence |-> "high", reason |-> "none"]
                   ELSE [detected |-> "cpu", confidence |-> "high", reason |-> "none"]

\* testSetup(): the promise executor up to conn.connect
TestSetupCall ==
    /\ \E pw \in Passwords :
           CallStart("testSetup", [hardwareType |-> "none", password |-> pw])
    /\ UNCHANGED sudoPassword

\* testSetup's setTimeout callback (30 seconds, armed before conn.connect arms
\* ssh2's own readyTimeout of 30 seconds)
TestSetupTimeout ==
    /\ op = "testSetup"
    /\ timerArmed
    /\ timerArmed' = FALSE
    /\ IF ~isResolved
       THEN /\ conn' = ConnEnd
            /\ RejectOnce("timeout", "timeout")
       ELSE UNCHANGED <<conn, isResolved, promise, result, settledBy>>
    /\ pc' = IF pc = "connecting" THEN "ended" ELSE pc
    /\ UNCHANGED <<op, config, sudoPassword, actualHardwareType, gpuAvailable,
                   hostDocker, hostNetwork, containers, sent, logged, details, services>>
    /\ UNCHANGED nonRemoteVars

\* testSetup's conn.on('error') handler
TestSetupError ==
    /\ op = "testSetup"
    /\ conn \in {"connecting", "open"}
    /\ conn' = "broken"
    /\ timerArmed' = FALSE
    /\ ResolveOnce(Failure("connection"), "error")
    /\ pc' = IF pc = "connecting" THEN "ended" ELSE pc
    /\ UNCHANGED <<op, config, sudoPassword, actualHardwareType, gpuAvailable,
                   hostDocker, hostNetwork, containers, sent, logged, details, services>>
    /\ UNCHANGED nonRemoteVars

\* conn.on('ready') of testSetup: up to the first await of detectHardware
TestSetupReady ==
    /\ op = "testSetup"
    /\ pc = "connecting"
    /\ conn = "connecting"
    /\ conn' = "open"
    /\ pc' = "probeArch"
    /\ UNCHANGED <<op, config, sudoPassword, isResolved, promise, result, settledBy,
                   timerArmed, actualHardwareType, gpuAvailable, hostDocker, hostNetwork,
                   containers, sent, logged, details, services>>
    /\ UNCHANGED nonRemoteVars

\* detectHardware rethrows a failing exec; testSetup's catch block
TestSetupCatch ==
    /\ timerArmed' = FALSE
    /\ conn' = ConnEnd
    /\ ResolveOnce(Failure("channel"), "ready")
    /\ pc' = "ended"
    /\ UNCHANGED <<sent, details>>

\* one probe of detectHardware: issue cmd, record the outcome, go on at next
Probe(at, cmd, newDetails, next) ==
    /\ op = "testSetup"
    /\ pc = at
    /\ IF ExecFails
       THEN TestSetupCatch
       ELSE /\ sent' = sent \o Wire(<<cmd>>)
            /\ details' = newDetails
            /\ pc' = next
            /\ UNCHANGED <<timerArmed, conn, isResolved, promise, result, settledBy>>
    /\ UNCHANGED <<op, config, sudoPassword, actualHardwareType, gpuAvailable,
                   hostDocker, hostNetwork, containers, logged, services>>
    /\ UNCHANGED nonRemoteVars

probeArch ==
    \E out \in ArchOutputs :
        Probe("probeArch", DetectCmd.uname,
              IF out # <<>> THEN [details EXCEPT !.architecture = out] ELSE details,
              "probeDocker")

\* details after the probe of a feature ended as run
Probed(feature, run) ==
    [details EXCEPT ![feature] = Found(execCommand(run)),
                    !.failedProbes = IF run.code # 0 THEN @ \cup {feature} ELSE @]

probeDocker ==
    \E run \in ProbeRuns :
        Probe("probeDocker", DetectCmd.dockerVersion, Probed("docker", run), "probeNvidia")

probeNvidia ==
    \E run \in ProbeRuns :
        Probe("probeNvidia", DetectCmd.nvidiaQuery, Probed("nvidia", run),
              IF Found(execCommand(run)) THEN "probeNvcc" ELSE "probeRocm")

probeNvcc ==
    \E found \in BOOLEAN :
        Probe("probeNvcc", DetectCmd.nvcc, [details EXCEPT !.cudaVersion = found], "probeRocm")

probeRocm ==
    \E run \in ProbeRuns :
        Probe("probeRocm", DetectCmd.rocmSmi, Probed("rocm", run),
              IF Found(execCommand(run)) THEN "probeRocmVersion" ELSE "probeLscpu")

probeRocmVersion ==
    \E found \in BOOLEAN :
        Probe("probeRocmVersion", DetectCmd.rocmVersion, [details EXCEPT !.rocmVersion = found],
              "probeLscpu")

\* the value testSetup resolves with on success
TestSetupSuccess(d) ==
    [NoResult EXCEPT !.success = TRUE,
                     !.detected = Recommendation(d).detected,
                     !.confidence = Recommendation(d).confidence,
                     !.error = Recommendation(d).reason]

\* the last probe, the recommendation, and the end of testSetup's try block
probeLscpu ==
    /\ op = "testSetup"
    /\ pc = "probeLscpu"
    /\ IF ExecFails
       THEN TestSetupCatch
       ELSE \E strix \in BOOLEAN :
              /\ sent' = sent \o Wire(<<DetectCmd.lscpu>>)
              /\ details' = [details EXCEPT !.strix = strix]
              /\ timerArmed' = FALSE
              /\ conn' = ConnEnd
              /\ ResolveOnce(TestSetupSuccess(details'), "ready")
              /\ pc' = "ended"
    /\ UNCHANGED <<op, config, sudoPassword, actualHardwareType, gpuAvailable,
                   hostDocker, hostNetwork, containers, logged, services>>
    /\ UNCHANGED nonRemoteVars

TestSetup ==
    \/ TestSetupCall
    \/ TestSetupReady
    \/ TestSetupError
    \/ TestSetupTimeout
    \/ probeArch
    \/ probeDocker
    \/ probeNvidia
    \/ probeNvcc
    \/ probeRocm
    \/ probeRocmVersion
    \/ probeLscpu

(***************************************************************************)
(* monitorRemoteServices(config)                                           *)
(***************************************************************************)
MonitorCall ==
    /\ \E pw \in Passwords :
           CallStart("monitor", [hardwareType |-> "none", password |-> pw])
    /\ UNCHANGED sudoPassword

\* monitor's setTimeout callback (15 seconds, armed before conn.connect arms
\* ssh2's own readyTimeout of 15 seconds)
MonitorTimeout ==
    /\ op = "monitor"
    /\ timerArmed
    /\ timerArmed' = FALSE
    /\ IF ~isResolved
       THEN /\ conn' = ConnEnd
            /\ RejectOnce("timeout", "timeout")
       ELSE UNCHANGED <<conn, isResolved, promise, result, settledBy>>
    /\ pc' = IF pc = "connecting" THEN "ended" ELSE pc
    /\ UNCHANGED <<op, config, sudoPassword, actualHardwareType, gpuAvailable,
                   hostDocker, hostNetwork, containers, sent, logged, details, services>>
    /\ UNCHANGED nonRemoteVars

\* monitor's conn.on('error') handler: clears the timer only when it settles
MonitorError ==
    /\ op = "monitor"
    /\ conn \in {"connecting", "open"}
    /\ conn' = "broken"
    /\ timerArmed' = IF ~isResolved THEN FALSE ELSE timerArmed
    /\ RejectOnce("connection", "error")
    /\ pc' = IF pc = "connecting" THEN "ended" ELSE pc
    /\ UNCHANGED <<op, config, sudoPassword, actualHardwareType, gpuAvailable,
                   hostDocker, hostNetwork, containers, sent, logged, details, services>>
    /\ UNCHANGED nonRemoteVars

MonitorReady ==
    /\ op = "monitor"
    /\ pc = "connecting"
    /\ conn = "connecting"
    /\ conn' = "open"
    /\ pc' = "monList"
    /\ UNCHANGED <<op, config, sudoPassword, isResolved, promise, result, settledBy,
                   timerArmed, actualHardwareType, gpuAvailable, hostDocker, hostNetwork,
                   containers, sent, logged, details, services>>
    /\ UNCHANGED nonRemoteVars

\* one entry of services, from one line of 'docker ps -a'
ServiceEntry(t, isHealthy) ==
    [name |-> ContainerName(t),
     hardwareType |-> t,
     status |-> IF containers[t] = "running" THEN "running" ELSE "stopped",
     isHealthy |-> IF containers[t] = "running" THEN isHealthy ELSE FALSE]

Listed == { t \in HardwareTypes : containers[t] # "absent" }

\* the end of monitor's try block
MonitorResolve ==
    /\ timerArmed' = FALSE
    /\ conn' = ConnEnd
    /\ ResolveOnce([NoResult EXCEPT !.success = TRUE], "ready")
    /\ pc' = "ended"

\* the container listing; without a running container the loop awaits nothing
\* more and the try block ends
monitorList ==
    /\ op = "monitor"
    /\ pc = "monList"
    /\ IF ExecFails
       THEN /\ timerArmed' = FALSE
            /\ conn' = ConnEnd
            /\ RejectOnce("channel", "ready")
            /\ pc' = "ended"
            /\ UNCHANGED <<sent, services>>
       ELSE /\ sent' = sent \o Wire(<<CmdDockerPsAll>>)
            /\ IF \E t \in Listed : containers[t] = "running"
               THEN /\ pc' = "monHealth"
                    /\ UNCHANGED <<services, timerArmed, conn, isResolved, promise, result,
                                   settledBy>>
               ELSE /\ services' = { ServiceEntry(t, FALSE) : t \in Listed }
                    /\ MonitorResolve
    /\ UNCHANGED <<op, config, sudoPassword, actualHardwareType, gpuAvailable,
                   hostDocker, hostNetwork, containers, logged, details>>
    /\ UNCHANGED nonRemoteVars

\* monitorHealth with the health probe sent for every listed container
monitorHealth_ProbesAll ==
    /\ op = "monitor"
    /\ pc = "monHealth"
    /\ \E healthy \in [Listed -> BOOLEAN] :
          /\ sent' = IF ExecFails THEN sent
                     ELSE sent \o Wire([i \in 1..Cardinality(Listed) |-> CmdCurlHealth])
          /\ services' = { ServiceEntry(t, IF ~ExecFails THEN healthy[t] ELSE FALSE) :
                             t \in Listed }
    /\ MonitorResolve
    /\ UNCHANGED <<op, config, sudoPassword, actualHardwareType, gpuAvailable,
                   hostDocker, hostNetwork, containers, logged, details>>
    /\ UNCHANGED nonRemoteVars

\* the health probes of the running containers (a failing exec is caught and
\* read as unhealthy), then the end of the try block
monitorHealth ==
    /\ op = "monitor"
    /\ pc = "monHealth"
    /\ LET running == { t \in Listed : containers[t] = "running" }
       IN  \E healthy \in [running -> BOOLEAN] :
             /\ sent' = IF ExecFails THEN sent
                        ELSE sent \o Wire([i \in 1..Cardinality(running) |-> CmdCurlHealth])
             /\ services' = { ServiceEntry(t, IF t \in running /\ ~ExecFails
                                              THEN healthy[t] ELSE FALSE) : t \in Listed }
    /\ MonitorResolve
    /\ UNCHANGED <<op, config, sudoPassword, actualHardwareType, gpuAvailable,
                   hostDocker, hostNetwork, containers, logged, details>>
    /\ UNCHANGED nonRemoteVars

Monitor ==
    \/ MonitorCall
    \/ MonitorReady
    \/ MonitorError
    \/ MonitorTimeout
    \/ monitorList
    \/ monitorHealth

RemoteNext == Deploy \/ TestSetup \/ Monitor


(***************************************************************************)
(* ClaraCoreDockerService: the local container lifecycle manager.          *)
(***************************************************************************)
\* waitForHealthy(maxAttempts = 30, ...)
MaxAttempts == 30

Platforms == {"win32", "linux", "darwin"}

\* the values start() is given as options.gpuType; "none" is the omitted field
GpuOptions == {"none", "cpu", "cuda"}

NoLocalResult == [success |-> FALSE, message |-> "none", gpuType |-> "none", error |-> "none"]

LocalSuccess(message, gpu) ==
    [success |-> TRUE, message |-> message, gpuType |-> gpu, error |-> "none"]

LocalFailure(err) == [NoLocalResult EXCEPT !.error = err]

\* a container left running by an earlier session of the application
LeftRunning == [state |-> "running", image |-> "cpu"]

Absent == [state |-> "absent", image |-> "none"]

\* no getStatus() call was made yet; error "none": the returned object has no
\* error field; failed: the engine query that failed during the call
NoStatus ==
    [pc |-> "idle", failed |-> "none", exists |-> FALSE, running |-> FALSE,
     error |-> "none", threw |-> FALSE]

DockerInit ==
    /\ lop = "none"
    /\ lpc = "idle"
    /\ options = "none"
    /\ platform \in Platforms
    /\ gpuType = "null"
    /\ detectedImage = "null"
    /\ isRunning = FALSE
    /\ engineUp \in BOOLEAN
    /\ container \in {Absent, LeftRunning}
    /\ images = IF container = Absent THEN {} ELSE {container.image}
    /\ port8091 \in IF container = Absent THEN {"free", "binary"} ELSE {"container"}
    /\ attempt = 0
    /\ becameHealthy = FALSE
    /\ lresult = NoLocalResult
    /\ trace = <<>>
    /\ entry = "absent"
    /\ disturbed = FALSE
    /\ stopGrace = 0
    /\ status = NoStatus

\* the type detectGPU settles on, given what the three probes answered
detectGPU(os, nvidia, rocm, vulkan) ==
    IF os = "win32"
    THEN IF nvidia THEN "cuda" ELSE "cpu"
    ELSE IF os = "linux"
         THEN IF nvidia THEN "cuda"
              ELSE IF rocm THEN "rocm"
                   ELSE IF vulkan THEN "vulkan" ELSE "cpu"
         ELSE "cpu"

\* the first step of each lifecycle operation
FirstStep(name) ==
    CASE name = "start" -> "ping"
      [] name = "stop" -> "stopExists"
      [] name = "restart" -> "stopExists"
      [] name = "remove" -> "rmExists"

\* a caller invokes one lifecycle operation, after the previous one returned
LocalCall ==
    \E name \in {"start", "stop", "restart", "remove"}, opt \in GpuOptions :
        /\ lpc \in {"idle", "done"}
        /\ name # "start" => opt = "none"
        /\ lop' = name
        /\ options' = opt
        /\ lpc' = FirstStep(name)
        /\ trace' = <<>>
        /\ entry' = IF engineUp THEN container.state ELSE "unreachable"
        /\ disturbed' = FALSE
        /\ stopGrace' = 0
        /\ attempt' = 0
        /\ becameHealthy' = FALSE
        /\ lresult' = NoLocalResult
        /\ UNCHANGED <<platform, gpuType, detectedImage, isRunning, engineUp, container,
                       images, port8091>>
        /\ UNCHANGED <<remoteVars, paneVars, sessions, registryVars, status>>

InStart == lop \in {"start", "restart"}

\* start's catch block: this.isRunning = false, then the friendly port error
\* or the error itself is thrown
StartCatch(err) ==
    /\ isRunning' = FALSE
    /\ lresult' = LocalFailure(err)
    /\ lpc' = "done"

\* ensureDockerRunning: docker.ping()
ensureDockerRunning ==
    /\ InStart
    /\ lpc = "ping"
    /\ trace' = Append(trace, "ping")
    /\ IF engineUp
       THEN /\ lpc' = "killPort"
            /\ UNCHANGED <<isRunning, lresult>>
       ELSE StartCatch("engine_unreachable")
    /\ UNCHANGED <<lop, options, platform, gpuType, detectedImage, engineUp,
                   container, images, port8091, attempt, becameHealthy, entry, disturbed>>
    /\ UNCHANGED <<remoteVars, paneVars, sessions, registryVars, stopGrace, status>>

\* what killing the listener of host port 8091 does.  The local binary just
\* dies.  The listener of a port the container publishes is a process of the
\* container engine: its port forwarder alone, or the process that serves the
\* engine API as well.
KillOutcomes ==
    IF port8091 = "binary" THEN {"killed", "failed"}
    ELSE {"killed", "failed", "engineKilled"}

\* killProcessOnPort8091: every process found on the port is killed, whoever
\* it is; a kill that fails is logged and ignored
killProcessOnPort8091 ==
    /\ InStart
    /\ lpc = "killPort"
    /\ IF port8091 = "free"
       THEN UNCHANGED <<port8091, trace, engineUp>>
       ELSE \E outcome \in KillOutcomes :
              /\ port8091' = IF outcome = "failed" THEN port8091 ELSE "free"
              /\ engineUp' = IF outcome = "engineKilled" THEN FALSE ELSE engineUp
              /\ trace' = Append(trace, IF outcome = "failed" THEN "killFailed" ELSE "kill")
    /\ lpc' = "selectGpu"
    /\ UNCHANGED <<lop, options, platform, gpuType, detectedImage, isRunning,
                   container, images, attempt, becameHealthy, lresult, entry,
                   disturbed>>
    /\ UNCHANGED <<remoteVars, paneVars, sessions, registryVars, stopGrace, status>>

\* auto-detection when options.gpuType is missing, the given type otherwise
selectGpu ==
    /\ InStart
    /\ lpc = "selectGpu"
    /\ IF options = "none"
       THEN \E nvidia \in BOOLEAN, rocm \in BOOLEAN, vulkan \in BOOLEAN :
              /\ gpuType' = detectGPU(platform, nvidia, rocm, vulkan)
              /\ detectedImage' = detectGPU(platform, nvidia, rocm, vulkan)
              /\ trace' = Append(trace, "detectGPU")
       ELSE /\ gpuType' = options
            /\ detectedImage' = options
            /\ trace' = trace
    /\ lpc' = "exists"
    /\ UNCHANGED <<lop, options, platform, isRunning, engineUp, container, images,
                   port8091, attempt, becameHealthy, lresult, entry, disturbed>>
    /\ UNCHANGED <<remoteVars, paneVars, sessions, registryVars, stopGrace, status>>

\* containerExists(): a failing listContainers is logged and read as "absent"
containerExists == engineUp /\ container.state # "absent"

\* start: const exists = await this.containerExists()
startExists ==
    /\ InStart
    /\ lpc = "exists"
    /\ trace' = Append(trace, "listContainers")
    /\ lpc' = IF containerExists THEN "inspect" ELSE "listImages"
    /\ UNCHANGED <<lop, options, platform, gpuType, detectedImage, isRunning,
                   engineUp, container, images, port8091, attempt, becameHealthy, lresult,
                   entry, disturbed>>
    /\ UNCHANGED <<remoteVars, paneVars, sessions, registryVars, stopGrace, status>>

\* start: container.inspect() of the existing container
startInspect ==
    /\ InStart
    /\ lpc = "inspect"
    /\ trace' = Append(trace, "inspect")
    /\ IF ~engineUp
       THEN StartCatch("engine_error")
       ELSE IF container.state = "running"
            THEN /\ isRunning' = TRUE
                 /\ lresult' = LocalSuccess("Container already running", gpuType)
                 /\ lpc' = "done"
            ELSE /\ lpc' = "startExisting"
                 /\ UNCHANGED <<isRunning, lresult>>
    /\ UNCHANGED <<lop, options, platform, gpuType, detectedImage, engineUp,
                   container, images, port8091, attempt, becameHealthy, entry, disturbed>>
    /\ UNCHANGED <<remoteVars, paneVars, sessions, registryVars, stopGrace, status>>

\* the engine starts a container only while host port 8091 is free
EngineStart(ok) ==
    IF ~engineUp THEN "engine_error"
    ELSE IF container.state = "running" THEN "already_started"
    ELSE IF port8091 # "free" THEN "port_8091_in_use"
    ELSE IF ~ok THEN "start_failed"
    ELSE "ok"

\* start: container.start() of the existing, stopped container
startExisting ==
    /\ InStart
    /\ lpc = "startExisting"
    /\ trace' = Append(trace, "start")
    /\ \E ok \in BOOLEAN :
         IF EngineStart(ok) = "ok"
         THEN /\ container' = [container EXCEPT !.state = "running"]
              /\ port8091' = "container"
              /\ isRunning' = TRUE
              /\ lresult' = LocalSuccess("Container started", gpuType)
              /\ lpc' = "done"
         ELSE /\ StartCatch(EngineStart(ok))
              /\ UNCHANGED <<container, port8091>>
    /\ UNCHANGED <<lop, options, platform, gpuType, detectedImage, engineUp,
                   images, attempt, becameHealthy, entry, disturbed>>
    /\ UNCHANGED <<remoteVars, paneVars, sessions, registryVars, stopGrace, status>>

\* start: docker.listImages() and the imageExists test
listImages ==
    /\ InStart
    /\ lpc = "listImages"
    /\ trace' = Append(trace, "listImages")
    /\ IF ~engineUp
       THEN StartCatch("engine_error")
       ELSE /\ lpc' = IF detectedImage \in images THEN "create" ELSE "pull"
            /\ UNCHANGED <<isRunning, lresult>>
    /\ UNCHANGED <<lop, options, platform, gpuType, detectedImage, engineUp,
                   container, images, port8091, attempt, becameHealthy, entry, disturbed>>
    /\ UNCHANGED <<remoteVars, paneVars, sessions, registryVars, stopGrace, status>>

\* pullImage(this.detectedImage)
localPullImage ==
    /\ InStart
    /\ lpc = "pull"
    /\ trace' = Append(trace, "pull")
    /\ \E pulled \in BOOLEAN :
         IF engineUp /\ pulled
         THEN /\ images' = images \cup {detectedImage}
              /\ lpc' = "create"
              /\ UNCHANGED <<isRunning, lresult>>
         ELSE /\ StartCatch(IF engineUp THEN "pull_failed" ELSE "engine_error")
              /\ UNCHANGED images
    /\ UNCHANGED <<lop, options, platform, gpuType, detectedImage, engineUp,
                   container, port8091, attempt, becameHealthy, entry, disturbed>>
    /\ UNCHANGED <<remoteVars, paneVars, sessions, registryVars, stopGrace, status>>

\* createContainer handing back a container that already runs
createContainer_Started ==
    /\ InStart
    /\ lpc = "create"
    /\ trace' = Append(trace, "create")
    /\ IF engineUp /\ container.state = "absent"
       THEN /\ container' = [state |-> "running", image |-> detectedImage]
            /\ lpc' = "startNew"
            /\ UNCHANGED <<isRunning, lresult>>
       ELSE /\ StartCatch(IF engineUp THEN "name_conflict" ELSE "engine_error")
            /\ UNCHANGED container
    /\ UNCHANGED <<lop, options, platform, gpuType, detectedImage, engineUp,
                   images, port8091, attempt, becameHealthy, entry, disturbed>>
    /\ UNCHANGED <<remoteVars, paneVars, sessions, registryVars, stopGrace, status>>

\* docker.createContainer(containerConfig): the engine refuses a second
\* container of the same name
createContainer ==
    /\ InStart
    /\ lpc = "create"
    /\ trace' = Append(trace, "create")
    /\ IF engineUp /\ container.state = "absent"
       THEN /\ container' = [state |-> "created", image |-> detectedImage]
            /\ lpc' = "startNew"
            /\ UNCHANGED <<isRunning, lresult>>
       ELSE /\ StartCatch(IF engineUp THEN "name_conflict" ELSE "engine_error")
            /\ UNCHANGED container
    /\ UNCHANGED <<lop, options, platform, gpuType, detectedImage, engineUp,
                   images, port8091, attempt, becameHealthy, entry, disturbed>>
    /\ UNCHANGED <<remoteVars, paneVars, sessions, registryVars, stopGrace, status>>

\* start: container.start() of the container just created
startNew ==
    /\ InStart
    /\ lpc = "startNew"
    /\ trace' = Append(trace, "start")
    /\ \E ok \in BOOLEAN :
         IF EngineStart(ok) = "ok"
         THEN /\ container' = [container EXCEPT !.state = "running"]
              /\ port8091' = "container"
              /\ isRunning' = TRUE
              /\ lpc' = "health"
              /\ UNCHANGED lresult
         ELSE /\ StartCatch(EngineStart(ok))
              /\ UNCHANGED <<container, port8091>>
    /\ UNCHANGED <<lop, options, platform, gpuType, detectedImage, engineUp,
                   images, attempt, becameHealthy, entry, disturbed>>
    /\ UNCHANGED <<remoteVars, paneVars, sessions, registryVars, stopGrace, status>>

\* http://localhost:8091/health can answer 200 only while something listens
CanAnswer ==
    \/ port8091 = "binary"
    \/ port8091 = "container" /\ container.state = "running"

\* waitForHealthy: one pass of the loop, or its end, then start's return
waitForHealthy ==
    /\ InStart
    /\ lpc = "health"
    /\ IF attempt < MaxAttempts
       THEN \E ok \in BOOLEAN :
              IF ok /\ CanAnswer
              THEN /\ becameHealthy' = TRUE
                   /\ lresult' = LocalSuccess("ClaraCore started in Docker", gpuType)
                   /\ lpc' = "done"
                   /\ attempt' = 0
              ELSE /\ attempt' = attempt + 1
                   /\ UNCHANGED <<becameHealthy, lresult, lpc>>
       ELSE /\ becameHealthy' = FALSE
            /\ lresult' = LocalSuccess("ClaraCore started in Docker", gpuType)
            /\ lpc' = "done"
            /\ attempt' = 0
    /\ UNCHANGED <<lop, options, platform, gpuType, detectedImage, isRunning,
                   engineUp, container, images, port8091, trace, entry, disturbed>>
    /\ UNCHANGED <<remoteVars, paneVars, sessions, registryVars, stopGrace, status>>


\* where stop() hands over: restart() goes on to its delay and start()
AfterStop == IF lop = "restart" THEN "restartSleep" ELSE "done"

\* stop: const exists = await this.containerExists()
stopExists ==
    /\ lop \in {"stop", "restart"}
    /\ lpc = "stopExists"
    /\ trace' = Append(trace, "listContainers")
    /\ IF containerExists
       THEN /\ lpc' = "stopInspect"
            /\ UNCHANGED <<isRunning, lresult>>
       ELSE /\ isRunning' = FALSE
            /\ lresult' = LocalSuccess("Container not found", "none")
            /\ lpc' = AfterStop
    /\ UNCHANGED <<lop, options, platform, gpuType, detectedImage, engineUp,
                   container, images, port8091, attempt, becameHealthy, entry, disturbed>>
    /\ UNCHANGED <<remoteVars, paneVars, sessions, registryVars, stopGrace, status>>

\* stop calling container.stop without looking at info.State.Running
stopInspect_AlwaysStops ==
    /\ lop \in {"stop", "restart"}
    /\ lpc = "stopInspect"
    /\ trace' = Append(trace, "inspect")
    /\ IF ~engineUp
       THEN /\ lresult' = LocalFailure("engine_error")
            /\ lpc' = "done"
       ELSE /\ lpc' = "stopCall"
            /\ UNCHANGED lresult
    /\ UNCHANGED <<lop, options, platform, gpuType, detectedImage, isRunning, engineUp,
                   container, images, port8091, attempt, becameHealthy, entry, disturbed>>
    /\ UNCHANGED <<remoteVars, paneVars, sessions, registryVars, stopGrace, status>>

\* stop: container.inspect(); stop's catch block rethrows
stopInspect ==
    /\ lop \in {"stop", "restart"}
    /\ lpc = "stopInspect"
    /\ trace' = Append(trace, "inspect")
    /\ IF ~engineUp
       THEN /\ lresult' = LocalFailure("engine_error")
            /\ lpc' = "done"
            /\ UNCHANGED isRunning
       ELSE IF container.state = "running"
            THEN /\ lpc' = "stopCall"
                 /\ UNCHANGED <<isRunning, lresult>>
            ELSE /\ isRunning' = FALSE
                 /\ lresult' = LocalSuccess("Container stopped", "none")
                 /\ lpc' = AfterStop
    /\ UNCHANGED <<lop, options, platform, gpuType, detectedImage, engineUp,
                   container, images, port8091, attempt, becameHealthy, entry, disturbed>>
    /\ UNCHANGED <<remoteVars, paneVars, sessions, registryVars, stopGrace, status>>

\* the t of container.stop({ t: 10 }): the seconds the engine waits before it
\* kills the container
StopGraceSeconds == 10

\* container.stop({ t: 10 }) as the engine answers it
EngineStop ==
    IF ~engineUp THEN "engine_error"
    ELSE IF container.state # "running" THEN "already_stopped"
    ELSE "ok"

\* the host port a stopped or removed container gives back
PortReleased == IF port8091 = "container" THEN "free" ELSE port8091

\* stop: await container.stop({ t: 10 })
stopCall ==
    /\ lop \in {"stop", "restart"}
    /\ lpc = "stopCall"
    /\ trace' = Append(trace, "stop")
    /\ stopGrace' = StopGraceSeconds
    /\ IF EngineStop = "ok"
       THEN /\ container' = [container EXCEPT !.state = "exited"]
            /\ port8091' = PortReleased
            /\ isRunning' = FALSE
            /\ lresult' = LocalSuccess("Container stopped", "none")
            /\ lpc' = AfterStop
       ELSE /\ lresult' = LocalFailure(EngineStop)
            /\ lpc' = "done"
            /\ UNCHANGED <<container, port8091, isRunning>>
    /\ UNCHANGED <<lop, options, platform, gpuType, detectedImage, engineUp,
                   images, attempt, becameHealthy, entry, disturbed>>
    /\ UNCHANGED <<remoteVars, paneVars, sessions, registryVars, status>>

\* restart: the 2 second delay, then start() without options
restartSleep ==
    /\ lop = "restart"
    /\ lpc = "restartSleep"
    /\ lpc' = "ping"
    /\ lresult' = NoLocalResult
    /\ UNCHANGED <<lop, options, platform, gpuType, detectedImage, isRunning,
                   engineUp, container, images, port8091, attempt, becameHealthy, trace,
                   entry, disturbed>>
    /\ UNCHANGED <<remoteVars, paneVars, sessions, registryVars, stopGrace, status>>

\* remove: const exists = await this.containerExists()
removeExists ==
    /\ lop = "remove"
    /\ lpc = "rmExists"
    /\ trace' = Append(trace, "listContainers")
    /\ IF containerExists
       THEN /\ lpc' = "rmInspect"
            /\ UNCHANGED lresult
       ELSE /\ lresult' = LocalSuccess("Container not found", "none")
            /\ lpc' = "done"
    /\ UNCHANGED <<lop, options, platform, gpuType, detectedImage, isRunning,
                   engineUp, container, images, port8091, attempt, becameHealthy, entry,
                   disturbed>>
    /\ UNCHANGED <<remoteVars, paneVars, sessions, registryVars, stopGrace, status>>

\* remove: container.inspect(); remove's catch block rethrows
removeInspect ==
    /\ lop = "remove"
    /\ lpc = "rmInspect"
    /\ trace' = Append(trace, "inspect")
    /\ IF ~engineUp
       THEN /\ lresult' = LocalFailure("engine_error")
            /\ lpc' = "done"
       ELSE /\ lpc' = IF container.state = "running" THEN "rmStop" ELSE "rmRemove"
            /\ UNCHANGED lresult
    /\ UNCHANGED <<lop, options, platform, gpuType, detectedImage, isRunning,
                   engineUp, container, images, port8091, attempt, becameHealthy, entry,
                   disturbed>>
    /\ UNCHANGED <<remoteVars, paneVars, sessions, registryVars, stopGrace, status>>

\* remove: await container.stop({ t: 10 }) of the running container
removeStop ==
    /\ lop = "remove"
    /\ lpc = "rmStop"
    /\ trace' = Append(trace, "stop")
    /\ stopGrace' = StopGraceSeconds
    /\ IF EngineStop = "ok"
       THEN /\ container' = [container EXCEPT !.state = "exited"]
            /\ port8091' = PortReleased
            /\ lpc' = "rmRemove"
            /\ UNCHANGED lresult
       ELSE /\ lresult' = LocalFailure(EngineStop)
            /\ lpc' = "done"
            /\ UNCHANGED <<container, port8091>>
    /\ UNCHANGED <<lop, options, platform, gpuType, detectedImage, isRunning,
                   engineUp, images, attempt, becameHealthy, entry, disturbed>>
    /\ UNCHANGED <<remoteVars, paneVars, sessions, registryVars, status>>

\* container.remove() as the engine answers it: a running container is not
\* removed without force
EngineRemove ==
    IF ~engineUp THEN "engine_error"
    ELSE IF container.state = "running" THEN "is_running"
    ELSE "ok"

\* remove: await container.remove()
removeCall ==
    /\ lop = "remove"
    /\ lpc = "rmRemove"
    /\ trace' = Append(trace, "remove")
    /\ IF EngineRemove = "ok"
       THEN /\ container' = Absent
            /\ isRunning' = FALSE
            /\ lresult' = LocalSuccess("Container removed", "none")
       ELSE /\ lresult' = LocalFailure(EngineRemove)
            /\ UNCHANGED <<container, isRunning>>
    /\ lpc' = "done"
    /\ UNCHANGED <<lop, options, platform, gpuType, detectedImage, engineUp,
                   images, port8091, attempt, becameHealthy, entry, disturbed>>
    /\ UNCHANGED <<remoteVars, paneVars, sessions, registryVars, stopGrace, status>>

\* an operation is between its call and its return
Busy == lpc \notin {"idle", "done"}

\* the local machine: the container engine stops at any time, and is started
\* again between two operations
EngineToggle ==
    /\ engineUp \/ ~Busy
    /\ engineUp' = ~engineUp
    /\ disturbed' = (disturbed \/ Busy)
    /\ UNCHANGED <<lop, lpc, options, platform, gpuType, detectedImage, isRunning,
                   container, images, port8091, attempt, becameHealthy, lresult, trace,
                   entry>>
    /\ UNCHANGED <<remoteVars, paneVars, sessions, registryVars, stopGrace, status>>

\* the local machine: the process in the running container exits
ContainerExit ==
    /\ container.state = "running"
    /\ container' = [container EXCEPT !.state = "exited"]
    /\ port8091' = PortReleased
    /\ disturbed' = (disturbed \/ Busy)
    /\ UNCHANGED <<lop, lpc, options, platform, gpuType, detectedImage, isRunning,
                   engineUp, images, attempt, becameHealthy, lresult, trace, entry>>
    /\ UNCHANGED <<remoteVars, paneVars, sessions, registryVars, stopGrace, status>>

\* the local machine: the local ClaraCore binary is started and takes the port
BinaryStart ==
    /\ ~Busy
    /\ port8091 = "free"
    /\ port8091' = "binary"
    /\ UNCHANGED <<lop, lpc, options, platform, gpuType, detectedImage, isRunning,
                   engineUp, container, images, attempt, becameHealthy, lresult, trace,
                   entry, disturbed>>
    /\ UNCHANGED <<remoteVars, paneVars, sessions, registryVars, stopGrace, status>>

DockerNext ==
    \/ LocalCall
    \/ ensureDockerRunning
    \/ killProcessOnPort8091
    \/ selectGpu
    \/ startExists
    \/ startInspect
    \/ startExisting
    \/ listImages
    \/ localPullImage
    \/ createContainer
    \/ startNew
    \/ waitForHealthy
    \/ stopExists
    \/ stopInspect
    \/ stopCall
    \/ restartSleep
    \/ removeExists
    \/ removeInspect
    \/ removeStop
    \/ removeCall
    \/ EngineToggle
    \/ ContainerExit
    \/ BinaryStart

(***************************************************************************)
(* getStatus(), called while no lifecycle operation is in flight.          *)
(***************************************************************************)
GetStatusCall ==
    /\ ~Busy
    /\ status.pc \in {"idle", "done"}
    /\ status' = [NoStatus EXCEPT !.pc = "exists"]
    /\ UNCHANGED <<lop, lpc, options, platform, gpuType, detectedImage, isRunning,
                   engineUp, container, images, port8091, attempt, becameHealthy, lresult,
                   trace, entry, disturbed, stopGrace>>
    /\ UNCHANGED <<remoteVars, paneVars, sessions, registryVars>>

\* getStatus: const exists = await this.containerExists(), which catches a
\* failing listContainers and answers false; the first return statement
statusExists ==
    /\ status.pc = "exists"
    /\ status' = IF containerExists
                 THEN [status EXCEPT !.pc = "inspect"]
                 ELSE [status EXCEPT !.pc = "done",
                                     !.failed = IF engineUp THEN "none" ELSE "listContainers"]
    /\ UNCHANGED <<lop, lpc, options, platform, gpuType, detectedImage, isRunning,
                   engineUp, container, images, port8091, attempt, becameHealthy, lresult,
                   trace, entry, disturbed, stopGrace>>
    /\ UNCHANGED <<remoteVars, paneVars, sessions, registryVars>>

\* getStatus: container.inspect(), the second return statement and the catch
\* block
statusInspect ==
    /\ status.pc = "inspect"
    /\ status' = IF engineUp /\ container.state # "absent"
                 THEN [status EXCEPT !.pc = "done",
                                     !.exists = TRUE,
                                     !.running = (container.state = "running")]
                 ELSE [status EXCEPT !.pc = "done",
                                     !.failed = "inspect",
                                     !.error = "engine_error"]
    /\ UNCHANGED <<lop, lpc, options, platform, gpuType, detectedImage, isRunning,
                   engineUp, container, images, port8091, attempt, becameHealthy, lresult,
                   trace, entry, disturbed, stopGrace>>
    /\ UNCHANGED <<remoteVars, paneVars, sessions, registryVars>>

StatusNext ==
    \/ GetStatusCall
    \/ statusExists
    \/ statusInspect
    \/ EngineToggle
    \/ ContainerExit
    \/ BinaryStart

(***************************************************************************)
(* validateServiceConfiguration(services)                                  *)
(***************************************************************************)
\* the longest dependencies list of a service given to the validation
MaxDeps == 2

\* the service names the validated maps are made of, and a name that is a key
\* of no map
ServiceNames == {"a", "b", "c"}
NotEnabled == "x"

\* the sequences over S without repetition, of length at most n
RECURSIVE SeqsUpTo(_, _)
SeqsUpTo(S, n) ==
    IF n = 0 THEN { <<>> }
    ELSE SeqsUpTo(S, n - 1)
           \cup { Append(q, x) : q \in { r \in SeqsUpTo(S, n - 1) : Len(r) = n - 1 },
                                 x \in S }

NoRepeat(q) == \A i, j \in DOMAIN q : i # j => q[i] # q[j]

Range(q) == { q[i] : i \in DOMAIN q }

\* the key orders of the maps: every non-empty selection of ServiceNames, in
\* every insertion order
KeyOrders == { q \in SeqsUpTo(ServiceNames, Cardinality(ServiceNames)) : NoRepeat(q) /\ q # <<>> }

\* the dependencies lists: names of the map or a name that is not enabled
DepLists == { q \in SeqsUpTo(ServiceNames \cup {NotEnabled}, MaxDeps) : NoRepeat(q) }

\* no registry query was made yet
NoCall ==
    [call |-> "none", service |-> "-", mode |-> "-", platform |-> "-",
     comfyUI |-> FALSE, n8n |-> FALSE, answer |-> FALSE, keys |-> <<>>,
     modes |-> <<>>, error |-> FALSE, override |-> 0, timeout |-> 0]

RegistryIdle ==
    /\ svcNames = <<>>
    /\ svcDeps = <<>>
    /\ errors = <<>>
    /\ validated = FALSE
    /\ reg = NoCall

RegistryInit ==
    /\ svcNames \in KeyOrders
    /\ svcDeps \in [Range(svcNames) -> DepLists]
    /\ errors = <<>>
    /\ validated = FALSE
    /\ reg = NoCall

ErrCircular(node) == [kind |-> "Circular dependency", service |-> node, dep |-> "-"]
ErrFailed == [kind |-> "Dependency validation failed", service |-> "-", dep |-> "-"]
ErrMissing(name, dep) == [kind |-> "not enabled", service |-> name, dep |-> dep]

\* the state the cycle detection threads through its visits; thrown: the
\* TypeError of dependencies[node].forEach for a node that is no key of the map
NoVisits == [visited |-> {}, temp |-> {}, errs |-> <<>>, thrown |-> FALSE]

RECURSIVE visit(_, _, _)
RECURSIVE visitEach(_, _, _)
\* const visit = (node) => { ... } of validateServiceConfiguration
visit(dependencies, node, st) ==
    IF st.thrown THEN st
    ELSE IF node \in st.temp
         THEN [st EXCEPT !.errs = Append(@, ErrCircular(node))]
         ELSE IF node \notin st.visited
              THEN IF node \notin DOMAIN dependencies
                   THEN [st EXCEPT !.temp = @ \cup {node}, !.thrown = TRUE]
                   ELSE LET after == visitEach(dependencies, dependencies[node],
                                               [st EXCEPT !.temp = @ \cup {node}])
                        IN  IF after.thrown THEN after
                            ELSE [after EXCEPT !.temp = @ \ {node},
                                               !.visited = @ \cup {node}]
              ELSE st

\* nodes.forEach(visit)
visitEach(dependencies, nodes, st) ==
    IF nodes = <<>> THEN st
    ELSE visitEach(dependencies, Tail(nodes), visit(dependencies, Head(nodes), st))

\* the missing-dependency loop: one error per service and dependency that is
\* no key of the map, in key order
RECURSIVE missingOf(_, _, _)
missingOf(name, deps, keys) ==
    IF deps = <<>> THEN <<>>
    ELSE (IF Head(deps) \notin keys THEN <<ErrMissing(name, Head(deps))>> ELSE <<>>)
             \o missingOf(name, Tail(deps), keys)

RECURSIVE missingDependencies(_, _, _)
missingDependencies(names, dependencies, keys) ==
    IF names = <<>> THEN <<>>
    ELSE missingOf(Head(names), dependencies[Head(names)], keys)
             \o missingDependencies(Tail(names), dependencies, keys)

\* validateServiceConfiguration(services): names are Object.keys(services)
validateServiceConfiguration(names, dependencies) ==
    LET walk == visitEach(dependencies, names, NoVisits)
    IN  walk.errs
            \o (IF walk.thrown THEN <<ErrFailed>> ELSE <<>>)
            \o missingDependencies(names, dependencies, Range(names))

\* one call of validateServiceConfiguration on the map drawn by RegistryInit
Validate ==
    /\ ~validated
    /\ errors' = validateServiceConfiguration(svcNames, svcDeps)
    /\ validated' = TRUE
    /\ UNCHANGED <<svcNames, svcDeps, reg>>
    /\ UNCHANGED <<remoteVars, paneVars, sessions, dockerVars>>

RegistryNext == Validate

(***************************************************************************)
(* The service catalog and the queries on it.                              *)
(***************************************************************************)
AllPlatforms == {"win32", "darwin", "linux"}

\* a service definition without deploymentModes / platformSupport
Plain(critical, dependencies) ==
    [critical |-> critical, dependencies |-> dependencies, hasModes |-> FALSE,
     deploymentModes |-> <<>>, hasPlatformSupport |-> FALSE,
     platformSupport |-> [m \in {} |-> {}]]

\* a service definition with deploymentModes and a mode-specific platformSupport
Moded(critical, dependencies, deploymentModes, platformSupport) ==
    [critical |-> critical, dependencies |-> dependencies, hasModes |-> TRUE,
     deploymentModes |-> deploymentModes, hasPlatformSupport |-> TRUE,
     platformSupport |-> platformSupport]

\* Object.keys(SERVICE_DEFINITIONS)
CatalogNames == <<"docker", "python-backend", "claracore", "comfyui", "n8n", "mcp", "mcp-proxy">>

SERVICE_DEFINITIONS ==
    [n \in Range(CatalogNames) |->
       CASE n = "docker" -> Plain(TRUE, <<>>)
         [] n = "python-backend" ->
              Moded(TRUE, <<"docker">>, <<"docker", "manual", "remote">>,
                    [m \in {"docker", "manual", "remote"} |-> AllPlatforms])
         [] n = "claracore" ->
              Moded(TRUE, <<"docker">>, <<"local", "remote", "docker">>,
                    [m \in {"local", "remote", "docker"} |->
                       IF m = "docker" THEN {"win32", "linux"} ELSE AllPlatforms])
         [] n = "comfyui" ->
              Moded(FALSE, <<"docker", "python-backend">>, <<"docker", "manual", "remote">>,
                    [m \in {"docker", "manual", "remote"} |->
                       IF m = "docker" THEN {"win32"} ELSE AllPlatforms])
         [] n = "n8n" ->
              Moded(FALSE, <<"docker">>, <<"docker", "manual", "remote">>,
                    [m \in {"docker", "manual", "remote"} |-> AllPlatforms])
         [] n = "mcp" -> Plain(FALSE, <<"python-backend">>)
         [] n = "mcp-proxy" -> Plain(FALSE, <<"mcp">>)]

\* PLATFORM_OVERRIDES: per platform, the overriding fields per service
PLATFORM_OVERRIDES == [p \in AllPlatforms |-> [n \in {} |-> <<>>]]

\* the arguments the queries are called with: a name that is no service, a
\* platform of os.platform() the catalog never mentions
QueryNames == Range(CatalogNames) \cup {"unknown"}
DeploymentModes == {"local", "docker", "manual", "remote"}
TargetPlatforms == AllPlatforms \cup {"freebsd"}

\* isServiceModeSupported without the platform test
isServiceModeSupported_IgnoresPlatform(serviceName, deploymentMode, targetPlatform) ==
    IF serviceName \notin DOMAIN SERVICE_DEFINITIONS
         \/ ~SERVICE_DEFINITIONS[serviceName].hasModes
    THEN deploymentMode = "docker"
    ELSE Includes(SERVICE_DEFINITIONS[serviceName].deploymentModes, deploymentMode)

\* isServiceModeSupported answering false for a service without deploymentModes
isServiceModeSupported_NoDefault(serviceName, deploymentMode, targetPlatform) ==
    /\ serviceName \in DOMAIN SERVICE_DEFINITIONS
    /\ LET service == SERVICE_DEFINITIONS[serviceName]
       IN  /\ Includes(service.deploymentModes, deploymentMode)
           /\ service.hasPlatformSupport
                => /\ deploymentMode \in DOMAIN service.platformSupport
                   /\ targetPlatform \in service.platformSupport[deploymentMode]

isServiceModeSupported(serviceName, deploymentMode, targetPlatform) ==
    IF serviceName \notin DOMAIN SERVICE_DEFINITIONS
         \/ ~SERVICE_DEFINITIONS[serviceName].hasModes
    THEN deploymentMode = "docker"
    ELSE LET service == SERVICE_DEFINITIONS[serviceName]
         IN  IF ~Includes(service.deploymentModes, deploymentMode) THEN FALSE
             ELSE IF service.hasPlatformSupport
                  THEN /\ deploymentMode \in DOMAIN service.platformSupport
                       /\ targetPlatform \in service.platformSupport[deploymentMode]
                  ELSE TRUE

getSupportedDeploymentModes(serviceName, targetPlatform) ==
    IF serviceName \notin DOMAIN SERVICE_DEFINITIONS
         \/ ~SERVICE_DEFINITIONS[serviceName].hasModes
    THEN <<"docker">>
    ELSE LET supported(mode) == isServiceModeSupported(serviceName, mode, targetPlatform)
         IN  SelectSeq(SERVICE_DEFINITIONS[serviceName].deploymentModes, supported)

\* getEnabledServices adding n8n whatever the selection
getEnabledServices_AlwaysN8n(comfyUI, n8n) ==
    (IF comfyUI THEN <<"comfyui">> ELSE <<>>)
        \o <<"n8n", "docker", "python-backend", "claracore">>

\* getEnabledServices with python-backend missing from the core services
getEnabledServices_NoBackend(comfyUI, n8n) ==
    (IF comfyUI THEN <<"comfyui">> ELSE <<>>)
        \o (IF n8n THEN <<"n8n">> ELSE <<>>)
        \o <<"docker", "claracore">>

\* the keys of getEnabledServices' result, in insertion order
getEnabledServices(comfyUI, n8n) ==
    LET coreServices == <<"docker", "python-backend", "claracore">>
        isDefined(serviceName) == serviceName \in DOMAIN SERVICE_DEFINITIONS
    IN  (IF comfyUI THEN <<"comfyui">> ELSE <<>>)
            \o (IF n8n THEN <<"n8n">> ELSE <<>>)
            \o SelectSeq(coreServices, isDefined)

\* { ...a, ...b } on records
Spread(a, b) ==
    [f \in DOMAIN a \cup DOMAIN b |-> IF f \in DOMAIN b THEN b[f] ELSE a[f]]

\* applyPlatformOverrides on the definitions of the services named by keys;
\* the process runs on platform os
applyPlatformOverrides(keys, os) ==
    LET platformOverrides ==
            IF os \in DOMAIN PLATFORM_OVERRIDES THEN PLATFORM_OVERRIDES[os]
            ELSE [n \in {} |-> <<>>]
    IN  [n \in Range(keys) |->
           IF n \in DOMAIN platformOverrides
           THEN Spread(SERVICE_DEFINITIONS[n], platformOverrides[n])
           ELSE SERVICE_DEFINITIONS[n]]

\* the keys of getCompatibleServices' result, in insertion order
CompatibleKeys(keys, preferredMode, targetPlatform) ==
    LET kept(serviceName) ==
            \/ isServiceModeSupported(serviceName, preferredMode, targetPlatform)
            \/ Len(getSupportedDeploymentModes(serviceName, targetPlatform)) > 0
    IN  SelectSeq(keys, kept)

\* getCompatibleServices giving every service the preferred mode
CompatibleMode_AlwaysPreferred(serviceName, preferredMode, targetPlatform) ==
    preferredMode

\* the deploymentMode getCompatibleServices gives a service it returns
CompatibleMode(serviceName, preferredMode, targetPlatform) ==
    IF isServiceModeSupported(serviceName, preferredMode, targetPlatform)
    THEN preferredMode
    ELSE getSupportedDeploymentModes(serviceName, targetPlatform)[1]

\* a caller asks isServiceModeSupported(serviceName, deploymentMode, targetPlatform)
IsServiceModeSupportedCall ==
    \E serviceName \in QueryNames, deploymentMode \in DeploymentModes,
       targetPlatform \in TargetPlatforms :
        /\ reg' = [NoCall EXCEPT !.call = "isServiceModeSupported",
                                 !.service = serviceName,
                                 !.mode = deploymentMode,
                                 !.platform = targetPlatform,
                                 !.answer = isServiceModeSupported(serviceName,
                                                deploymentMode, targetPlatform)]
        /\ UNCHANGED <<svcNames, svcDeps, errors, validated>>
        /\ UNCHANGED <<remoteVars, paneVars, sessions, dockerVars>>

\* a caller asks getEnabledServices(selectedFeatures)
GetEnabledServicesCall ==
    \E comfyUI \in BOOLEAN, n8n \in BOOLEAN :
        /\ reg' = [NoCall EXCEPT !.call = "getEnabledServices",
                                 !.comfyUI = comfyUI,
                                 !.n8n = n8n,
                                 !.keys = getEnabledServices(comfyUI, n8n)]
        /\ UNCHANGED <<svcNames, svcDeps, errors, validated>>
        /\ UNCHANGED <<remoteVars, paneVars, sessions, dockerVars>>

\* a caller takes getServiceConfiguration(selectedFeatures), on a process of
\* platform os, and validates it
GetServiceConfigurationCall ==
    \E comfyUI \in BOOLEAN, n8n \in BOOLEAN, os \in TargetPlatforms :
        LET keys == getEnabledServices(comfyUI, n8n)
            configured == applyPlatformOverrides(keys, os)
            dependencies == [n \in Range(keys) |-> configured[n].dependencies]
        IN  /\ reg' = [NoCall EXCEPT !.call = "getServiceConfiguration",
                                     !.comfyUI = comfyUI,
                                     !.n8n = n8n,
                                     !.platform = os,
                                     !.keys = keys]
            /\ svcNames' = keys
            /\ svcDeps' = dependencies
            /\ errors' = validateServiceConfiguration(keys, dependencies)
            /\ validated' = TRUE
            /\ UNCHANGED <<remoteVars, paneVars, sessions, dockerVars>>

\* a caller asks getCompatibleServices(selectedFeatures, preferredMode, targetPlatform)
GetCompatibleServicesCall ==
    \E comfyUI \in BOOLEAN, n8n \in BOOLEAN, preferredMode \in DeploymentModes,
       targetPlatform \in TargetPlatforms :
        LET enabled == getEnabledServices(comfyUI, n8n)
            keys == CompatibleKeys(enabled, preferredMode, targetPlatform)
        IN  /\ reg' = [NoCall EXCEPT !.call = "getCompatibleServices",
                                     !.comfyUI = comfyUI,
                                     !.n8n = n8n,
                                     !.mode = preferredMode,
                                     !.platform = targetPlatform,
                                     !.keys = keys,
                                     !.modes = [n \in Range(keys) |->
                                                  CompatibleMode(n, preferredMode,
                                                                 targetPlatform)]]
            /\ UNCHANGED <<svcNames, svcDeps, errors, validated>>
            /\ UNCHANGED <<remoteVars, paneVars, sessions, dockerVars>>

\* the type field of each service definition
ServiceTypes ==
    [n \in Range(CatalogNames) |->
       CASE n = "docker" -> "docker-daemon"
         [] n = "python-backend" -> "docker-container"
         [] n = "claracore" -> "binary"
         [] n = "comfyui" -> "docker-container"
         [] n = "n8n" -> "docker-container"
         [] n = "mcp" -> "service"
         [] n = "mcp-proxy" -> "http-service"]

\* HEALTH_CHECK_TIMEOUTS, in milliseconds
HEALTH_CHECK_TIMEOUTS ==
    [t \in {"docker-daemon", "docker-container", "binary", "service"} |->
       CASE t = "docker-daemon" -> 10000
         [] t = "docker-container" -> 15000
         [] t = "binary" -> 5000
         [] t = "service" -> 3000]

\* what a caller may have set as a timeout of its own on the service object;
\* 0 is "not set"
TimeoutOverrides == {0, 1000, 20000}

\* HEALTH_CHECK_TIMEOUTS[service.type] || 5000
getHealthCheckTimeout(service) ==
    IF service.type \in DOMAIN HEALTH_CHECK_TIMEOUTS
    THEN HEALTH_CHECK_TIMEOUTS[service.type]
    ELSE 5000

\* a caller asks for the health check timeout of a catalog service
GetHealthCheckTimeoutCall ==
    \E n \in Range(CatalogNames), ms \in TimeoutOverrides :
        LET service == [type |-> ServiceTypes[n], healthCheckTimeout |-> ms]
        IN  /\ reg' = [NoCall EXCEPT !.call = "getHealthCheckTimeout",
                                     !.service = n,
                                     !.override = ms,
                                     !.timeout = getHealthCheckTimeout(service)]
            /\ UNCHANGED <<svcNames, svcDeps, errors, validated>>
            /\ UNCHANGED <<remoteVars, paneVars, sessions, dockerVars>>

CatalogNext ==
    \/ GetHealthCheckTimeoutCall
    \/ IsServiceModeSupportedCall
    \/ GetEnabledServicesCall
    \/ GetServiceConfigurationCall
    \/ GetCompatibleServicesCall

(***************************************************************************)
(* ArtifactPaneProvider: the artifact pane's state and its five callbacks. *)
(***************************************************************************)
\* the longest list a caller hands to openArtifactPane or setArtifacts
MaxNew == 2

\* artifacts: two of them share the id "a"
Artifacts ==
    { [id |-> "a", content |-> "x"], [id |-> "a", content |-> "y"],
      [id |-> "b", content |-> "x"] }

MessageIds == {"m1", "m2"}

\* the lists callers pass as newArtifacts
NewArtifactLists == SeqsUpTo(Artifacts, MaxNew)

PaneInit ==
    /\ isOpen = FALSE
    /\ artifacts = <<>>
    /\ currentMessageId = NULL

\* prev.map((a) => a.id) as a set
Ids(list) == { list[i].id : i \in DOMAIN list }

\* the functional update of openArtifactPane
Accumulate(prev, newArtifacts) ==
    LET uniqueNewArtifacts == SelectSeq(newArtifacts, LAMBDA a : a.id \notin Ids(prev))
    IN  IF Len(uniqueNewArtifacts) = 0 THEN prev ELSE uniqueNewArtifacts \o prev

openArtifactPane ==
    \E newArtifacts \in NewArtifactLists, messageId \in MessageIds :
        /\ artifacts' = Accumulate(artifacts, newArtifacts)
        /\ currentMessageId' = messageId
        /\ isOpen' = TRUE
        /\ UNCHANGED <<remoteVars, dockerVars, registryVars, sessions>>

closeArtifactPane ==
    /\ isOpen' = FALSE
    /\ UNCHANGED <<artifacts, currentMessageId>>
    /\ UNCHANGED <<remoteVars, dockerVars, registryVars, sessions>>

\* the functional update of addArtifact
Prepend(prev, artifact) ==
    IF \E i \in DOMAIN prev : prev[i].id = artifact.id THEN prev ELSE <<artifact>> \o prev

addArtifact ==
    \E artifact \in Artifacts, messageId \in MessageIds :
        /\ artifacts' = Prepend(artifacts, artifact)
        /\ currentMessageId' = messageId
        /\ isOpen' = TRUE
        /\ UNCHANGED <<remoteVars, dockerVars, registryVars, sessions>>

clearArtifacts ==
    /\ artifacts' = <<>>
    /\ currentMessageId' = NULL
    /\ isOpen' = FALSE
    /\ UNCHANGED <<remoteVars, dockerVars, registryVars, sessions>>

setArtifacts ==
    \E newArtifacts \in NewArtifactLists, messageId \in MessageIds :
        /\ artifacts' = newArtifacts
        /\ currentMessageId' = messageId
        /\ UNCHANGED isOpen
        /\ UNCHANGED <<remoteVars, dockerVars, registryVars, sessions>>

PaneNext ==
    \/ openArtifactPane
    \/ closeArtifactPane
    \/ addArtifact
    \/ clearArtifacts
    \/ setArtifacts

(***************************************************************************)
(* Overlapping deploy() calls: the one field this.sudoPassword is written  *)
(* by every call and read by execCommand whenever a command is sent.       *)
(***************************************************************************)
\* the privileged commands one deployment sends at most
MaxSudo == 2

Deployments == {"first", "second"}

NoSession == [pc |-> "idle", password |-> NULL, sent |-> <<>>]

OverlapIdle == sessions = [d \in Deployments |-> NoSession]

\* deploy(config): this.sudoPassword = config.password, then conn.connect
OverlapCall(d) ==
    \E pw \in Passwords :
        /\ sessions[d].pc = "idle"
        /\ sudoPassword' = pw
        /\ sessions' = [sessions EXCEPT ![d] = [pc |-> "running", password |-> pw, sent |-> <<>>]]

\* execCommand(conn, command) for a sudo command of the ready handler: the
\* password piped to sudo -S is this.sudoPassword as it is at that moment
OverlapExec(d) ==
    /\ sessions[d].pc = "running"
    /\ Len(sessions[d].sent) < MaxSudo
    /\ sessions' = [sessions EXCEPT ![d].sent =
                        Append(@, WrapSudo(InstallCmd.runGetDocker, sudoPassword))]
    /\ UNCHANGED sudoPassword

\* the end of a call: the try block's end, the catch block and the 'error'
\* handler set this.sudoPassword = null; the timeout callback does not
OverlapEnd(d) ==
    \E path \in {"resolved", "timeout"} :
        /\ sessions[d].pc = "running"
        /\ sudoPassword' = IF path = "timeout" THEN sudoPassword ELSE NULL
        /\ sessions' = [sessions EXCEPT ![d].pc = "ended"]

OverlapNext ==
    \E d \in Deployments :
        /\ OverlapCall(d) \/ OverlapExec(d) \/ OverlapEnd(d)
        /\ UNCHANGED <<op, pc, config, isResolved, promise, result, settledBy,
                       timerArmed, conn, actualHardwareType, gpuAvailable, hostDocker,
                       hostDriver, hostNetwork, containers, sent, logged, details, services>>
        /\ UNCHANGED <<dockerVars, registryVars, paneVars>>

vars == <<remoteVars, dockerVars, registryVars, paneVars, sessions>>

\* the remote deployment service, on its own
\* the local machine while the remote service is looked at on its own
DockerIdle ==
    /\ DockerInit
    /\ platform = "linux"
    /\ engineUp = TRUE
    /\ port8091 = "free"

\* the remote host while the local services are looked at on their own
RemoteIdle ==
    /\ RemoteInit
    /\ hostDocker = TRUE

\* the remote deployment service, on its own
Init == RemoteInit /\ DockerIdle /\ RegistryIdle /\ PaneInit /\ OverlapIdle
Next == RemoteNext
Spec == Init /\ [][Next]_vars

\* the same service with its scheduling: the event loop runs a handler that is
\* ready, a remote command ends, and an armed timer fires
SpecFair == Spec /\ WF_vars(Next)

\* the service registry, on its own
InitRegistry == RegistryInit /\ RemoteIdle /\ DockerIdle /\ PaneInit /\ OverlapIdle
SpecRegistry == InitRegistry /\ [][RegistryNext]_vars

\* the service catalog's queries, on their own
InitCatalog == RegistryIdle /\ RemoteIdle /\ DockerIdle /\ PaneInit /\ OverlapIdle
SpecCatalog == InitCatalog /\ [][CatalogNext]_vars

\* the local container lifecycle manager, on its own
InitDocker == DockerInit /\ RemoteIdle /\ RegistryIdle /\ PaneInit /\ OverlapIdle
SpecDocker == InitDocker /\ [][DockerNext]_vars

\* getStatus() on the local machine, on its own
SpecStatus == InitDocker /\ [][StatusNext]_vars

\* the artifact pane, on its own
InitPane == PaneInit /\ RemoteIdle /\ DockerIdle /\ RegistryIdle /\ OverlapIdle
SpecPane == InitPane /\ [][PaneNext]_vars

\* two overlapping deployments and the shared password field, on their own
InitOverlap == OverlapIdle /\ RemoteIdle /\ DockerIdle /\ RegistryIdle /\ PaneInit
SpecOverlap == InitOverlap /\ [][OverlapNext]_vars


(***************************************************************************)
(* Properties of ClaraCoreRemoteService (under Spec).                      *)
(***************************************************************************)
GpuTypes == {"cuda", "rocm", "strix"}

\* C1: sudoPassword is non-null only while a deploy() call is in progress:
\* once deploy's promise has settled - resolved with success, resolved with a
\* failure, or rejected by the 5-minute timeout - the field is null.
C1_PasswordOnlyDuringDeploy ==
    sudoPassword # NULL => (op = "deploy" /\ promise = "pending")

\* C2: a deploy of a GPU hardware type whose GPU setup threw, and whose cleanup,
\* pull and run of the cpu variant succeeded (claracore-cpu is running when the
\* try block ends on a live connection), resolves with success, fallbackToCpu
\* and hardware type cpu.
C2_GpuFailureFallsBackToCpu ==
    (/\ op = "deploy"
     /\ config.hardwareType \in GpuTypes
     /\ actualHardwareType = "cpu"
     /\ containers["cpu"] = "running"
     /\ promise # "pending"
     /\ settledBy = "ready"
     /\ conn = "ended")
    => (/\ promise = "resolved"
        /\ result.success
        /\ result.fallbackToCpu
        /\ result.hardwareType = "cpu"
        /\ result.containerName = ContainerName("cpu"))

\* C3: when uname -m answered an ARM architecture, detectHardware has sent no
\* command but the architecture query, and the result testSetup resolves with
\* is detected 'unsupported' with confidence 'high' and a reason.
C3_ArmStopsProbing ==
    (op = "testSetup" /\ isARM(details.architecture))
    => (/\ sent = <<DetectCmd.uname>>
        /\ (promise = "resolved" /\ result.success)
             => (/\ result.detected = "unsupported"
                 /\ result.confidence = "high"
                 /\ result.error # "none"))

\* C6: testSetup never rejects: every failure (connection error, the 30-second
\* timeout, an error during hardware detection) resolves its promise with a
\* {success:false, error} value.
C6_TestSetupNeverRejects ==
    (op = "testSetup" /\ promise # "pending" /\ ~result.success)
    => (promise = "resolved" /\ result.error # "none")

\* C7: when deploy's overall timeout expires before the deployment has
\* finished, deploy resolves with {success:false, error}, the sudo password is
\* cleared and the SSH connection is closed.
C7_DeployTimeoutIsStructured ==
    (op = "deploy" /\ settledBy = "timeout")
    => (/\ promise = "resolved"
        /\ ~result.success
        /\ result.error # "none"
        /\ sudoPassword = NULL
        /\ conn = "ended")

\* C8: deploy and monitorRemoteServices deliver every connection-level failure
\* (the 'error' event, the timeout) as a resolved {success:false, error} value,
\* never as a rejected promise.
C8_ConnectionFailuresResolve ==
    (op \in {"deploy", "monitor"} /\ settledBy \in {"error", "timeout"})
    => (promise = "resolved" /\ ~result.success /\ result.error # "none")

\* C9: no command string handed to conn.exec during deploy contains the sudo
\* password, and no command written to the log contains it.
C9_PasswordNotInCommandLine ==
    op = "deploy"
    => (/\ \A i \in DOMAIN sent : ~Contains(sent[i], config.password)
        /\ \A i \in DOMAIN logged : ~Contains(logged[i], config.password))

\* C10: a deploy called without a hardwareType detects the hardware on the
\* remote host (the architecture query is sent) and goes on with a detected
\* variant, one of cuda, rocm, strix, cpu, as image tag and container name.
C10_OmittedTypeIsDetected ==
    (/\ op = "deploy"
     /\ config.hardwareType = "undefined"
     /\ pc \in {"cleanup", "pull", "run", "sleep", "verify", "health"})
    => (/\ actualHardwareType \in ImageTags
        /\ \E i \in DOMAIN sent : sent[i] = DetectCmd.uname)

\* the positions of sent at which conn.exec received the command
SentAt(command) ==
    { i \in DOMAIN sent : sent[i] = WrapSudo(command, config.password) }

\* a deploy of the cuda variant has resolved with success on a host where
\* docker --version failed (the installer script was run) and where the
\* NVIDIA driver answered and the GPU set-up ran to its last command
CudaDeployedOnBareHost ==
    /\ op = "deploy"
    /\ config.hardwareType = "cuda"
    /\ promise = "resolved"
    /\ result.success
    /\ SentAt(InstallCmd.runGetDocker) # {}
    /\ SentAt(CudaCmd.dockerInfo) # {}

C24_SuccessMeansStartedContainerRuns ==
    (op = "deploy" /\ promise = "resolved" /\ settledBy = "ready")
    => /\ result.success
            => (/\ Includes(sent, CmdDockerPs(result.containerName))
                /\ \E t \in HardwareTypes :
                      /\ ContainerName(t) = result.containerName
                      /\ containers[t] = "running")
       /\ result.error = "container_failed_to_start"
            => (/\ Includes(sent, CmdDockerLogs(ContainerName(actualHardwareType)))
                /\ Includes(sent, CmdDockerInspect(ContainerName(actualHardwareType))))

\* C25: a docker run that exited non-zero (execCommand logs the failed
\* command) ends the deployment: deploy goes on to no further step and
\* resolves with {success:false, error}.
C25_FailedRunIsFatal ==
    (op = "deploy" /\ logged # <<>>)
    => (/\ pc = "ended"
        /\ ~Includes(sent, CmdDockerPs(ContainerName(config.hardwareType)))
        /\ promise = "resolved" => (~result.success /\ result.error # "none"))

\* the phase of a deployment a command sent to the host belongs to: 3
\* prerequisites (container runtime and GPU toolkit), 4 network, 5 cleaning,
\* 6 pull, 7 start, 8 verification
PhaseRank(command) ==
    IF Len(command) >= 2 /\ Head(command) = "docker"
    THEN CASE command[2] = "network" -> 4
           [] command[2] \in {"stop", "rm"} -> 5
           [] command[2] = "pull" -> 6
           [] command[2] = "run" -> 7
           [] command[2] \in {"ps", "logs", "inspect"} -> 8
           [] OTHER -> 3
    ELSE IF command = CmdCurlHealth THEN 8 ELSE 3

\* C27: the phases of a deployment begin in the order prerequisites
\* (container runtime and GPU toolkit), network, cleaning, pull, start,
\* verification: no command of a phase is sent after a command of a later
\* phase.
C27_DeployPhasesInOrder ==
    op = "deploy"
    => \A i \in DOMAIN sent : \A j \in DOMAIN sent :
          i < j => PhaseRank(sent[i]) <= PhaseRank(sent[j])

\* C29: on an architecture that is not ARM, testSetup's successful result
\* recommends cuda if an NVIDIA GPU was found, else strix if the signature
\* matched, else rocm if ROCm was found, else cpu; the confidence is 'medium'
\* exactly when cuda is recommended without a toolkit version, 'high' otherwise.
C29_RecommendationPrecedence ==
    (/\ op = "testSetup"
     /\ promise = "resolved"
     /\ result.success
     /\ ~isARM(details.architecture))
    => (/\ result.detected = (CASE details.nvidia -> "cuda"
                                [] ~details.nvidia /\ details.strix -> "strix"
                                [] ~details.nvidia /\ ~details.strix /\ details.rocm -> "rocm"
                                [] OTHER -> "cpu")
        /\ result.confidence = "medium"
             <=> (result.detected = "cuda" /\ ~details.cudaVersion)
        /\ result.confidence \in {"medium", "high"})

C29_StrixBeforeRocm ==
    /\ op = "testSetup"
    /\ promise = "resolved"
    /\ result.success
    /\ ~isARM(details.architecture)
    /\ ~details.nvidia
    /\ details.strix
    /\ details.rocm
    /\ result.detected = "strix"

\* C30: what the remote detector recommends for a host is what the local
\* detector (detectGPU on Linux) selects for the same probe outcomes,
\* whatever the Vulkan probe answers.
C30_DetectorsAgree ==
    (op = "testSetup" /\ promise = "resolved" /\ result.success)
    => \A vulkan \in BOOLEAN :
          result.detected = detectGPU("linux", details.nvidia, details.rocm, vulkan)

(***************************************************************************)
(* Properties of validateServiceConfiguration (under SpecRegistry).        *)
(***************************************************************************)
\* the dependency graph over the map's services: an edge for every dependency
\* that is itself a key of the map
DependsOn(n, m) == m \in Range(svcNames) /\ Includes(svcDeps[n], m)

RECURSIVE ReachableIn(_, _)
\* the services reached from the set S over at most k edges
ReachableIn(S, k) ==
    IF k = 0 THEN S
    ELSE ReachableIn(S \cup { m \in Range(svcNames) : \E n \in S : DependsOn(n, m) }, k - 1)

HasCycle ==
    \E n \in Range(svcNames) :
        n \in ReachableIn({ m \in Range(svcNames) : DependsOn(n, m) }, Len(svcNames))

AllPresent ==
    \A n \in Range(svcNames) : \A i \in DOMAIN svcDeps[n] : svcDeps[n][i] \in Range(svcNames)

\* C4: the list returned for a map whose dependency graph has a cycle holds at
\* least one 'Circular dependency' error; the list returned for an acyclic map
\* with every dependency present is empty.
C4_CyclesAreReported ==
    validated
    => (/\ HasCycle => \E i \in DOMAIN errors : errors[i].kind = "Circular dependency"
        /\ (~HasCycle /\ AllPresent) => errors = <<>>)

(***************************************************************************)
(* Properties of ClaraCoreDockerService (under SpecDocker).                *)
(***************************************************************************)
\* C5: a start() invoked while the clara_core container is running, with
\* nothing but start() itself acting on the engine and the container, returns
\* success, issues no create-container call, and leaves the one container
\* named clara_core in place.
C5_StartOnRunningIsIdempotent ==
    (lop = "start" /\ lpc = "done" /\ entry = "running" /\ ~disturbed)
    => (/\ lresult.success
        /\ ~Includes(trace, "create")
        /\ container.state = "running")

(***************************************************************************)
(* Properties of the service catalog's queries (under SpecCatalog).        *)
(***************************************************************************)
\* C11: isServiceModeSupported('claracore', 'docker', 'darwin') is false and
\* isServiceModeSupported('claracore', 'docker', 'win32') is true.
C11_ClaracoreDockerByPlatform ==
    (reg.call = "isServiceModeSupported" /\ reg.service = "claracore" /\ reg.mode = "docker")
    => (/\ reg.platform = "darwin" => ~reg.answer
        /\ reg.platform = "win32" => reg.answer)

C11_AskedOnDarwin ==
    /\ reg.call = "isServiceModeSupported"
    /\ reg.service = "claracore"
    /\ reg.mode = "docker"
    /\ reg.platform = "darwin"
    /\ ~reg.answer

\* the mode is in the service's declared mode list
ModeDeclared(n, mode) == Includes(SERVICE_DEFINITIONS[n].deploymentModes, mode)

\* the service declares no platform support for the mode, or the platform is
\* in the mode's supported-platform set
PlatformAllowed(n, mode, os) ==
    \/ ~SERVICE_DEFINITIONS[n].hasPlatformSupport
    \/ mode \notin DOMAIN SERVICE_DEFINITIONS[n].platformSupport
    \/ os \in SERVICE_DEFINITIONS[n].platformSupport[mode]

\* C13, as stated: for every service of the catalog, mode and platform,
\* isServiceModeSupported answers true exactly when the mode is in the
\* service's declared mode list and the platform is allowed for that mode.
C13_SupportedIffDeclared ==
    (reg.call = "isServiceModeSupported" /\ reg.service \in Range(CatalogNames))
    => (reg.answer <=> (/\ ModeDeclared(reg.service, reg.mode)
                        /\ PlatformAllowed(reg.service, reg.mode, reg.platform)))

\* C13, amended: the equivalence holds for the services that declare a mode
\* list; for a service that declares none (docker, mcp, mcp-proxy) the answer
\* is true exactly for the mode 'docker', on every platform.
C13_SupportedIffDeclaredOrDefault ==
    (reg.call = "isServiceModeSupported" /\ reg.service \in Range(CatalogNames))
    => IF SERVICE_DEFINITIONS[reg.service].hasModes
       THEN reg.answer <=> (/\ ModeDeclared(reg.service, reg.mode)
                            /\ PlatformAllowed(reg.service, reg.mode, reg.platform))
       ELSE reg.answer <=> (reg.mode = "docker")

C13_UndeclaredServiceAsked ==
    /\ reg.call = "isServiceModeSupported"
    /\ reg.service = "mcp"
    /\ reg.mode = "docker"
    /\ reg.platform = "darwin"
    /\ reg.answer

\* C14: getCompatibleServices returns every enabled service that supports
\* the preferred mode on the platform with that mode, every other enabled
\* service that has a supported mode with the first of its supported modes,
\* and so gives every returned service a mode isServiceModeSupported accepts.
C14_CompatibleModeAssignment ==
    reg.call = "getCompatibleServices"
    => /\ \A n \in Range(getEnabledServices(reg.comfyUI, reg.n8n)) :
            LET supported == getSupportedDeploymentModes(n, reg.platform)
            IN  IF isServiceModeSupported(n, reg.mode, reg.platform)
                THEN n \in Range(reg.keys) /\ reg.modes[n] = reg.mode
                ELSE supported # <<>>
                       => n \in Range(reg.keys) /\ reg.modes[n] = supported[1]
       /\ \A n \in Range(reg.keys) :
            isServiceModeSupported(n, reg.modes[n], reg.platform)

C14_FellBackToFirstMode ==
    /\ reg.call = "getCompatibleServices"
    /\ reg.mode = "docker"
    /\ reg.platform = "darwin"
    /\ "claracore" \in Range(reg.keys)
    /\ reg.modes["claracore"] = "local"
    /\ reg.modes["python-backend"] = "docker"

\* C15: when getCompatibleServices meets an enabled service without any
\* supported mode on the platform, a non-critical one is left out of the
\* result without an error, and a critical one makes the call report a
\* configuration error to its caller.
C15_CriticalServiceNotDropped ==
    reg.call = "getCompatibleServices"
    => \A n \in Range(getEnabledServices(reg.comfyUI, reg.n8n)) :
          getSupportedDeploymentModes(n, reg.platform) = <<>>
            => IF SERVICE_DEFINITIONS[n].critical
               THEN reg.error
               ELSE n \notin Range(reg.keys)

\* C16: getEnabledServices returns docker, python-backend and claracore,
\* comfyui exactly when selectedFeatures.comfyUI is set, n8n exactly when
\* selectedFeatures.n8n is set, and nothing else.
C16_EnabledServices ==
    reg.call = "getEnabledServices"
    => Range(reg.keys) = {"docker", "python-backend", "claracore"}
                            \cup (IF reg.comfyUI THEN {"comfyui"} ELSE {})
                            \cup (IF reg.n8n THEN {"n8n"} ELSE {})

C16_OnlyComfyUISelected ==
    /\ reg.call = "getEnabledServices"
    /\ reg.comfyUI
    /\ ~reg.n8n
    /\ Len(reg.keys) = 4

\* C17: the services getServiceConfiguration returns have an acyclic
\* dependency graph, every dependency of an enabled service is enabled, and
\* validateServiceConfiguration returns no error for them.
C17_ConfigurationIsValid ==
    reg.call = "getServiceConfiguration"
    => /\ validated
       /\ svcNames = reg.keys
       /\ ~HasCycle
       /\ AllPresent
       /\ errors = <<>>

C17_EverythingSelected ==
    /\ reg.call = "getServiceConfiguration"
    /\ reg.comfyUI
    /\ reg.n8n
    /\ validated
    /\ Len(svcNames) = 5
    /\ svcDeps["comfyui"] = <<"docker", "python-backend">>

\* C18: for a map that has both a dependency cycle and a dependency that is
\* no key of the map, the list validateServiceConfiguration returns holds
\* at least one cycle error and a missing-dependency error for every pair of
\* a service and a dependency of it that is missing.
C18_BothClassesCollected ==
    (validated /\ reg.call = "none" /\ HasCycle /\ ~AllPresent)
    => /\ \E i \in DOMAIN errors : errors[i].kind = "Circular dependency"
       /\ \A n \in Range(svcNames) : \A k \in DOMAIN svcDeps[n] :
             svcDeps[n][k] \notin Range(svcNames)
               => \E i \in DOMAIN errors : errors[i] = ErrMissing(n, svcDeps[n][k])
(***************************************************************************)
(* Properties of ClaraCoreDockerService.getStatus (under SpecStatus) and   *)
(* of stop (under SpecDocker).                                             *)
(***************************************************************************)
\* C19: getStatus() never throws, and a call during which a query of the
\* container engine failed (listContainers or inspect) returns exists:false
\* together with an error field.
C19_StatusFailuresCarryError ==
    status.pc = "done"
    => /\ ~status.threw
       /\ status.failed # "none" => (~status.exists /\ status.error # "none")

\* C20: a stop() that returned while the machine left the engine and the
\* container alone: on a container that was absent or stopped when stop() was
\* invoked it has issued no container.stop call, left the container's state as
\* it was and returned success; on a container that was running it has issued
\* container.stop with a grace period of 10 seconds.
C20_StopIsNoOpUnlessRunning ==
    (lop = "stop" /\ lpc = "done" /\ ~disturbed)
    => /\ entry \in {"absent", "exited", "created"}
            => (/\ ~Includes(trace, "stop")
                /\ stopGrace = 0
                /\ container.state = entry
                /\ lresult.success)
       /\ entry = "running"
            => (/\ Includes(trace, "stop")
                /\ stopGrace = StopGraceSeconds
                /\ container.state = "exited"
                /\ lresult.success)

C20_StoppedAStoppedContainer ==
    /\ lop = "stop"
    /\ lpc = "done"
    /\ ~disturbed
    /\ entry = "exited"
    /\ Includes(trace, "inspect")
    /\ lresult.success
(***************************************************************************)
(* Properties of the local container's life cycle (under SpecDocker).      *)
(***************************************************************************)
\* the moves of the clara_core container the life cycle allows: created after
\* absent, running after created, running and stopped ("exited") either way,
\* and absent after any state that is not running
AllowedMoves ==
    { <<"absent", "created">>, <<"created", "running">>,
      <<"running", "exited">>, <<"exited", "running">>,
      <<"created", "absent">>, <<"exited", "absent">> }

\* C21: under serialized start, stop, restart and remove calls the clara_core
\* container changes its state only along absent -> created -> running,
\* running <-> stopped and any state -> absent; it becomes absent only in
\* remove; a remove left alone by the machine has stopped a container that was
\* running and removed it, and a remove of an absent container issues no stop
\* and no remove call and returns success.
\* The engine holds one container of the name at most: a create is refused
\* while one exists.
C21_ContainerLifeCycle ==
    /\ [][/\ container'.state # container.state
               => <<container.state, container'.state>> \in AllowedMoves
          /\ (container'.state = "absent" /\ container.state # "absent")
               => (lop = "remove" /\ Includes(trace', "remove"))
          /\ (container'.state = "created" /\ container.state # "created")
               => container.state = "absent"]_vars
    /\ [](/\ (lop = "remove" /\ lpc = "done" /\ entry = "running" /\ ~disturbed)
               => (/\ Includes(trace, "stop")
                   /\ container.state = "absent"
                   /\ lresult.success)
          /\ (lop = "remove" /\ lpc = "done" /\ entry = "absent" /\ ~disturbed)
               => (/\ ~Includes(trace, "stop")
                   /\ ~Includes(trace, "remove")
                   /\ container.state = "absent"
                   /\ lresult.success))

C21_RemovedARunningContainer ==
    /\ lop = "remove"
    /\ lpc = "done"
    /\ entry = "running"
    /\ ~disturbed
    /\ container.state = "absent"
    /\ Includes(trace, "stop")
    /\ lresult.success

\* C22: a start() that created and started the container and whose health
\* polling ran out without a healthy answer does not throw, and what it returns
\* differs from what it returns when the health endpoint answered.
C22_UnhealthyStartIsTold ==
    (/\ lop = "start"
     /\ lpc = "done"
     /\ Includes(trace, "create")
     /\ Includes(trace, "start")
     /\ lresult.error = "none"
     /\ ~becameHealthy)
    => (/\ lresult.success
        /\ lresult # LocalSuccess("ClaraCore started in Docker", gpuType))

\* C23: an operation invoked while the container engine cannot be reached, the
\* engine staying down, fails with the engine-unreachable error, reports no
\* success and has issued nothing but the reachability check.
C23_UnreachableEngineFailsFast ==
    (lpc = "done" /\ entry = "unreachable" /\ ~disturbed)
    => (/\ ~lresult.success
        /\ lresult.error = "engine_unreachable"
        /\ \A i \in DOMAIN trace : trace[i] = "ping")

\* C26: a start() on a container that was running when it was invoked, the
\* machine leaving engine and container alone, has killed no process, pulled
\* no image and created, stopped or started no container; the container is
\* still running and bound to port 8091.
C26_StartOnRunningTouchesNothing ==
    (lop = "start" /\ lpc = "done" /\ entry = "running" /\ ~disturbed)
    => (/\ \A i \in DOMAIN trace :
              trace[i] \notin {"kill", "pull", "create", "stop", "start", "remove"}
        /\ container.state = "running"
        /\ port8091 = "container")

\* the place of an engine call or process kill in the documented order of
\* start's steps
StepRank(step) ==
    CASE step = "ping" -> 1
      [] step = "detectGPU" -> 2
      [] step \in {"kill", "killFailed"} -> 3
      [] step = "listContainers" -> 4
      [] step \in {"inspect", "listImages"} -> 5
      [] step = "pull" -> 6
      [] step = "create" -> 7
      [] step = "start" -> 8
      [] OTHER -> 9

\* C28: the steps of a start() begin in the order reachability check, hardware
\* variant selection, preemption of port 8091, existing-container check, image
\* pull, create, start, health polling; the preemption of port 8091 begins
\* only after the hardware variant was selected.
C28_StartStepsInOrder ==
    lop = "start"
    => /\ \A i \in DOMAIN trace : \A j \in DOMAIN trace :
             i < j => StepRank(trace[i]) <= StepRank(trace[j])
       /\ lpc = "killPort"
             => IF options = "none" THEN Includes(trace, "detectGPU")
                ELSE gpuType = options

(***************************************************************************)
(* Claims about the artifact pane.                                         *)
(***************************************************************************)
\* C40: whatever sequence of openArtifactPane, addArtifact, setArtifacts,
\* closeArtifactPane and clearArtifacts ran since the list was empty, no two
\* artifacts of the list have the same id.
C40_NoTwoArtifactsShareAnId ==
    \A i, j \in DOMAIN artifacts : artifacts[i].id = artifacts[j].id => i = j

(***************************************************************************)
(* Claims about overlapping deployments.                                   *)
(***************************************************************************)
\* C37: with two deploy() calls in flight on one instance, every sudo command
\* sent for a deployment carries the password of that deployment's own config.
C37_EachSudoUsesItsOwnPassword ==
    \A d \in Deployments :
        \A i \in DOMAIN sessions[d].sent :
            sessions[d].sent[i] = WrapSudo(InstallCmd.runGetDocker, sessions[d].password)

(***************************************************************************)
(* Claims about what start() returns.                                      *)
(***************************************************************************)
\* C32: when start() has started the container itself and then returns
\* success, the container is running at that moment: a container that exited
\* right after its start makes start() fail, never succeed.
C32_NoSuccessForAnExitedContainer ==
    [][ ( /\ InStart
          /\ lpc # "done"
          /\ lpc' = "done"
          /\ lresult'.success
          /\ Includes(trace', "start") )
        => container'.state = "running" ]_vars

\* C39: the gpuType a successful start() or restart() returns is the hardware
\* variant of the image the clara_core container runs at that moment.
C39_ReturnedGpuTypeIsTheRunningImage ==
    [][ ( /\ InStart
          /\ lpc # "done"
          /\ lpc' = "done"
          /\ lresult'.success
          /\ container'.state = "running" )
        => lresult'.gpuType = container'.image ]_vars

(***************************************************************************)
(* Claims about health check timeouts.                                     *)
(***************************************************************************)
\* C33: the default timeouts are ordered daemon > container > binary >
\* lightweight service; the type of every catalog service has a default of its
\* own in the table; and a timeout set on the service itself is the one
\* getHealthCheckTimeout answers.
C33_TimeoutDefaultsAndOverride ==
    reg.call = "getHealthCheckTimeout" =>
        /\ HEALTH_CHECK_TIMEOUTS["docker-daemon"] > HEALTH_CHECK_TIMEOUTS["docker-container"]
        /\ HEALTH_CHECK_TIMEOUTS["docker-container"] > HEALTH_CHECK_TIMEOUTS["binary"]
        /\ HEALTH_CHECK_TIMEOUTS["binary"] > HEALTH_CHECK_TIMEOUTS["service"]
        /\ ServiceTypes[reg.service] \in DOMAIN HEALTH_CHECK_TIMEOUTS
        /\ reg.override # 0 => reg.timeout = reg.override
        /\ reg.override = 0 => reg.timeout = HEALTH_CHECK_TIMEOUTS[ServiceTypes[reg.service]]

(***************************************************************************)
(* Claims about monitorRemoteServices.                                     *)
(***************************************************************************)
\* the entries of services the result counts as running, and as healthy
RunningServices == { s \in services : s.status = "running" }
HealthyServices == { s \in services : s.isHealthy }

\* the health probes among the commands sent
ProbesSent == { i \in DOMAIN sent : sent[i] = CmdCurlHealth }

\* a command that only reads the remote host's state
ReadsOnly(command) ==
    \/ Head(command) = "curl"
    \/ Head(command) = "docker" /\ command[2] = "ps"

\* C34: in every result of monitorRemoteServices no more health probes were
\* sent than containers are running, a stopped container is not healthy, every
\* command sent only reads the host's state, and healthyServices <=
\* runningServices <= totalServices = the number of containers listed.
C34_MonitorResult ==
    (op = "monitor" /\ promise = "resolved") =>
        /\ Cardinality(ProbesSent) <= Cardinality(RunningServices)
        /\ \A s \in services : s.status = "stopped" => ~s.isHealthy
        /\ \A i \in DOMAIN sent : ReadsOnly(sent[i])
        /\ Cardinality(HealthyServices) <= Cardinality(RunningServices)
        /\ Cardinality(RunningServices) <= Cardinality(services)
        /\ Cardinality(services) = Cardinality(Listed)

\* a result that lists a stopped container next to a running, healthy one
C34_StoppedBesideHealthy ==
    /\ op = "monitor"
    /\ promise = "resolved"
    /\ \E s \in services : s.status = "stopped"
    /\ \E s \in services : s.isHealthy
    /\ ProbesSent # {}

(***************************************************************************)
(* Claims about probes that fail.                                          *)
(***************************************************************************)
\* C31: in detectHardware a feature whose probe command exited with a
\* non-zero code, whatever it printed, is recorded as absent; and detection
\* fails only when the SSH channel cannot run a command.
C31_FailedProbeMeansAbsent ==
    op = "testSetup" =>
        /\ \A feature \in details.failedProbes : ~details[feature]
        /\ (settledBy = "ready" /\ ~result.success /\ result.detected # "unsupported")
               => ExecFails

(***************************************************************************)
(* Claims about how the promises settle.                                   *)
(***************************************************************************)
\* C36: whatever the order of the 'ready' handler, the 'error' event and the
\* timeout timer, the promise of deploy(), testSetup() and
\* monitorRemoteServices() settles exactly once: a pending promise is settled
\* in the end, and a settled one keeps its state and its value until the next
\* call.
C36_SettlesExactlyOnce ==
    /\ (promise = "pending") ~> (promise \in {"resolved", "rejected"})
    /\ [][ (promise # "pending" /\ promise # "none")
             => ( (promise' = promise /\ result' = result /\ settledBy' = settledBy)
                  \/ (promise' = "pending" /\ pc = "ended") ) ]_vars

\* the 'ready' handler of a deployment comes to its end, and to its own
\* resolve, after the timer has rejected the promise
C36_HandlerEndsAfterTimeout ==
    /\ op = "deploy"
    /\ settledBy = "timeout"
    /\ promise = "rejected"
    /\ pc = "ended"

(***************************************************************************)
(* Claims about a deployment that was given up.                            *)
(***************************************************************************)
\* C38: once deploy() has settled because its timer fired or an 'error' event
\* came, no further command is sent to the remote host for that deployment.
C38_NothingSentAfterGivingUp ==
    [][ ( /\ op = "deploy"
          /\ settledBy \in {"timeout", "error"}
          /\ op' = op
          /\ settledBy' = settledBy )
        => sent' = sent ]_vars

\* a deployment given up half way: commands went out, the container was never
\* run, and the 'ready' handler has come to its end
C38_GivenUpHalfWay ==
    /\ op = "deploy"
    /\ settledBy \in {"timeout", "error"}
    /\ pc = "ended"
    /\ sent # <<>>
    /\ \A i \in DOMAIN sent : ~Contains(sent[i], <<"docker", "run">>)

(***************************************************************************)
(* Claims about the GPU prerequisite step.                                 *)
(***************************************************************************)
\* a command that changes the remote host: packages, groups, the container
\* runtime's configuration, services, the docker context
Mutating(command) ==
    \/ Includes(command, "sudo")
    \/ Contains(command, <<"docker", "context", "use">>)

\* C35: when the GPU driver or device the requested hardware type needs is
\* absent on the host, the GPU step of deploy() fails at its first check: it
\* sends no command that changes the host, and deploy goes on without the GPU.
C35_AbsentDriverStopsSetup ==
    [][ ( /\ op = "deploy"
          /\ pc = "gpuSetup"
          /\ pc' = "cleanup"
          /\ hostDriver' = "absent" )
        => ( /\ actualHardwareType' = "cpu"
             /\ ~gpuAvailable'
             /\ \A i \in (Len(sent) + 1)..Len(sent') : ~Mutating(sent'[i]) ) ]_vars
=============================================================================
